---- MODULE Spec2Model ----
(***************************************************************************)
(* A model of the PriceScope server (src/unnamed/part_000): the /scrape    *)
(* pipeline, the exchange-rate cache, and the pure helpers it uses.        *)
(*                                                                         *)
(* Strings are sequences of one-character strings.  A JavaScript null or   *)
(* undefined string is the one-element sequence Null.                      *)
(***************************************************************************)
EXTENDS Integers, Sequences, FiniteSets, TLC

VARIABLES
  slugUrl,      \* argument of extractProductNameFromUrl under test
  slugName,     \* its return value
  slugDone,     \* whether the call has returned
  htmlIn,       \* argument of cleanHTML under test
  cleanOut,     \* its return value
  cleanDone,    \* whether the call has returned
  cleanTwice,   \* cleanHTML of that output, once it was asked for
  exchangeRates,   \* the cached table of rates
  ratesFetchedAt,  \* when it was fetched
  clock,           \* Date.now()
  toinrPc,      \* where the call of toINR under test stands
  toinrAmount,  \* its arguments
  toinrCurrency,
  toinrNow,     \* the now of its getINRRate
  toinrResult,  \* its return value
  toinrLookups, \* how often it called getINRRate
  toinrRefresh, \* how its refresh ended, if it attempted one
  IS_CLOUD,        \* whether the process runs hosted
  scrPc,           \* where the /scrape request stands
  scrUrl,          \* url of the request body
  scrWebsite,      \* websiteName
  scrHtml,         \* html
  scrFetchFailed,  \* fetchFailed
  scrCleaned,      \* cleanedText
  scrModel,        \* index in GEMINI_MODELS of the model being asked
  scrExtracted,    \* extracted
  scrNumericPrice, \* numericPrice
  scrCurrency,     \* currency
  scrError,        \* whether the outer catch ran
  scrResponse,     \* the response sent
  scrResponses,    \* how many responses were sent
  scrCalls,        \* how often each collaborator was called
  SERPAPI_KEY,     \* process.env.SERPAPI_KEY, "" when unset
  srchPc,          \* where the /search request stands
  srchName,        \* productName of the request body
  srchItems,       \* results.slice(0, 3)
  srchConv,        \* the callback of each of these results
  srchStatic,      \* whether the static list of retailers was built
  srchResponse,    \* the response sent
  srchResponses,   \* how many responses were sent
  brPc,            \* the await at which a call of fetchRenderedHTML stands
  brBrowser,       \* the local variable browser, and the state of its instance
  brOpen,          \* the browser instances launched and not closed
  brOutcome,       \* how the last call settled: "returned", or the await that threw
  brHtml,          \* what the last call returned
  brCalls,         \* the calls of fetchRenderedHTML made so far
  isLoading,       \* app.js: a comparison is under way
  uiPc,            \* the await at which startComparison stands
  uiUrl,           \* the url that startComparison sends
  uiHidden,        \* the sections that carry the class hidden
  uiDisabled,      \* compareBtn.disabled
  uiScrape,        \* scrapeData, the answer of /scrape
  uiSearch,        \* searchData, the answer of /search
  uiBanner,        \* the text of the blocked banner
  uiMessage,       \* errorMessage.textContent
  uiInFlight,      \* the fetch calls issued and not yet settled
  uiLast,          \* the last key press or activation of the button
  rateCalls,       \* the calls of getINRRate, each with its locals
  lastRefresh,     \* how the refresh that settled last ended
  gemPc,           \* where a call of extractWithGemini stands
  gemCalled,       \* the models whose generateContent was called, in order
  gemErrors,       \* the errors caught so far, in order
  lastError,       \* the local variable lastError
  gemResult,       \* what the call returned
  gemThrown,       \* the message of the error the call threw
  gridProducts,    \* app.js: the argument products of renderComparison
  comparisonGrid,  \* the content of the comparison grid
  gridRendered     \* whether renderComparison has run

slugVars == <<slugUrl, slugName, slugDone>>
cleanVars == <<htmlIn, cleanOut, cleanDone, cleanTwice>>
rateVars == <<exchangeRates, ratesFetchedAt, clock>>
toinrVars == <<toinrPc, toinrAmount, toinrCurrency, toinrNow, toinrResult,
               toinrLookups, toinrRefresh>>
scrVars == <<IS_CLOUD, scrPc, scrUrl, scrWebsite, scrHtml, scrFetchFailed,
             scrCleaned, scrModel, scrExtracted, scrNumericPrice, scrCurrency,
             scrError, scrResponse, scrResponses, scrCalls>>
srchVars == <<SERPAPI_KEY, srchPc, srchName, srchItems, srchConv, srchStatic,
              srchResponse, srchResponses>>
brVars == <<brPc, brBrowser, brOpen, brOutcome, brHtml, brCalls>>
uiVars == <<isLoading, uiPc, uiUrl, uiHidden, uiDisabled, uiScrape, uiSearch, uiBanner,
            uiMessage, uiInFlight, uiLast>>
callVars == <<rateCalls, lastRefresh>>
gemVars == <<gemPc, gemCalled, gemErrors, lastError, gemResult, gemThrown>>
gridVars == <<gridProducts, comparisonGrid, gridRendered>>
vars == <<slugVars, cleanVars, rateVars, toinrVars, scrVars, srchVars, brVars, uiVars, callVars, gemVars, gridVars>>

\* ------------------------------------------------------------------------
\* Characters and strings
\* ------------------------------------------------------------------------
Null == <<"NULL">>

LowerSeq == <<"a","b","c","d","e","f","g","h","i","j","k","l","m",
              "n","o","p","q","r","s","t","u","v","w","x","y","z">>
UpperSeq == <<"A","B","C","D","E","F","G","H","I","J","K","L","M",
              "N","O","P","Q","R","S","T","U","V","W","X","Y","Z">>
DigitSeq == <<"0","1","2","3","4","5","6","7","8","9">>

Range(s) == {s[i] : i \in DOMAIN s}
LowerSet == Range(LowerSeq)
UpperSet == Range(UpperSeq)
DigitSet == Range(DigitSeq)
LetterSet == LowerSet \cup UpperSet
HexSet == DigitSet \cup {"a","b","c","d","e","f","A","B","C","D","E","F"}
\* \w of a JavaScript regular expression
WordSet == LetterSet \cup DigitSet \cup {"_"}
\* \s of a JavaScript regular expression (the characters the model uses)
SpaceSet == {" ", "\t", "\n"}

IndexOf(seq, c) == CHOOSE i \in DOMAIN seq : seq[i] = c
\* String.prototype.toUpperCase / toLowerCase on one character
UpperChar(c) == IF c \in LowerSet THEN UpperSeq[IndexOf(LowerSeq, c)] ELSE c
LowerChar(c) == IF c \in UpperSet THEN LowerSeq[IndexOf(UpperSeq, c)] ELSE c
toLowerCase(s) == [i \in DOMAIN s |-> LowerChar(s[i])]
toUpperCase(s) == [i \in DOMAIN s |-> UpperChar(s[i])]

Min(a, b) == IF a < b THEN a ELSE b
Max(a, b) == IF a > b THEN a ELSE b

\* s.slice(from - 1, to) on 1-based, inclusive positions
Slice(s, from, to) == IF from > to THEN <<>> ELSE SubSeq(s, from, to)

\* whether pat occurs in s at position i
MatchAt(s, pat, i) ==
  /\ i >= 1
  /\ i + Len(pat) - 1 <= Len(s)
  /\ \A k \in 1..Len(pat) : s[i + k - 1] = pat[k]

\* String.prototype.includes
includes(s, pat) == \E i \in 1..(Len(s) + 1) : MatchAt(s, pat, i)

\* String.prototype.trim
trim(s) ==
  LET keep == {i \in DOMAIN s : s[i] \notin SpaceSet}
  IN IF keep = {} THEN <<>>
     ELSE Slice(s, CHOOSE i \in keep : \A j \in keep : i <= j,
                   CHOOSE i \in keep : \A j \in keep : i >= j)

\* the concatenation of a sequence of strings
RECURSIVE Concat(_)
Concat(ss) ==
  IF ss = <<>> THEN <<>>
  ELSE IF Len(ss) = 1 THEN ss[1]
  ELSE Concat(SubSeq(ss, 1, Len(ss) \div 2))
         \o Concat(SubSeq(ss, (Len(ss) \div 2) + 1, Len(ss)))

\* s.replace(/\s+/g, ' '): every maximal run of whitespace becomes one space
CollapseSpaces(s) ==
  LET piece(i) ==
        IF s[i] \notin SpaceSet THEN <<s[i]>>
        ELSE IF i > 1 /\ s[i - 1] \in SpaceSet THEN <<>>
        ELSE <<" ">>
  IN Concat([i \in DOMAIN s |-> piece(i)])

\* ------------------------------------------------------------------------
\* Maximal runs of word characters: the stretches between two \b
\* ------------------------------------------------------------------------
IsWord(s, i) == i \in DOMAIN s /\ s[i] \in WordSet
\* first and last position of the word run that holds position i
RunStart(s, i) == CHOOSE j \in 1..i :
                    /\ \A k \in j..i : IsWord(s, k)
                    /\ ~IsWord(s, j - 1)
RunEnd(s, i) == CHOOSE j \in i..Len(s) :
                    /\ \A k \in i..j : IsWord(s, k)
                    /\ ~IsWord(s, j + 1)
RunChars(s, i) == {s[k] : k \in RunStart(s, i)..RunEnd(s, i)}
RunLen(s, i) == RunEnd(s, i) - RunStart(s, i) + 1

\* s.replace(/\b[a-f0-9]{8,}\b/gi, ''): between two word boundaries the
\* pattern can only match a whole word run
StripHexIds(s) ==
  LET gone(i) == /\ IsWord(s, i)
                 /\ RunChars(s, i) \subseteq HexSet
                 /\ RunLen(s, i) >= 8
  IN Concat([i \in DOMAIN s |-> IF gone(i) THEN <<>> ELSE <<s[i]>>])

\* s.replace(/\b\d{4,}\b/g, '')
StripLongNumbers(s) ==
  LET gone(i) == /\ IsWord(s, i)
                 /\ RunChars(s, i) \subseteq DigitSet
                 /\ RunLen(s, i) >= 4
  IN Concat([i \in DOMAIN s |-> IF gone(i) THEN <<>> ELSE <<s[i]>>])

\* s.replace(/\b\w/g, c => c.toUpperCase())
TitleCase(s) ==
  [i \in DOMAIN s |->
     IF IsWord(s, i) /\ ~IsWord(s, i - 1) THEN UpperChar(s[i]) ELSE s[i]]

\* s.replace(/[-_]/g, ' ')
SeparatorsToSpaces(s) ==
  [i \in DOMAIN s |-> IF s[i] \in {"-", "_"} THEN " " ELSE s[i]]

\* ------------------------------------------------------------------------
\* URLs
\* ------------------------------------------------------------------------
\* a string literal as a sequence of characters
HttpsPrefix == <<"h","t","t","p","s",":","/","/">>
HttpPrefix == <<"h","t","t","p",":","/","/">>

\* new URL(url) throws unless the string has a scheme; the model's URLs are
\* http(s) URLs or strings with no scheme at all
UrlParses(url) ==
  \/ MatchAt(url, HttpsPrefix, 1) /\ Len(url) > Len(HttpsPrefix)
  \/ MatchAt(url, HttpPrefix, 1) /\ Len(url) > Len(HttpPrefix)

\* the part of a parsed URL after scheme://
AfterScheme(url) ==
  IF MatchAt(url, HttpsPrefix, 1)
  THEN Slice(url, Len(HttpsPrefix) + 1, Len(url))
  ELSE Slice(url, Len(HttpPrefix) + 1, Len(url))

\* the position of the first character of s in set, or Len(s) + 1
FirstIn(s, set) ==
  LET hits == {i \in DOMAIN s : s[i] \in set}
  IN IF hits = {} THEN Len(s) + 1
     ELSE CHOOSE i \in hits : \A j \in hits : i <= j

\* new URL(url).hostname
Hostname(url) ==
  LET rest == AfterScheme(url)
  IN Slice(rest, 1, FirstIn(rest, {"/", "?", "#"}) - 1)

\* new URL(url).pathname
Pathname(url) ==
  LET rest == AfterScheme(url)
      from == FirstIn(rest, {"/", "?", "#"})
      tail == Slice(rest, from, Len(rest))
      path == Slice(tail, 1, FirstIn(tail, {"?", "#"}) - 1)
  IN IF path = <<>> THEN <<"/">> ELSE path

\* s.split(sep).filter(Boolean): the non-empty pieces between separators
RECURSIVE SplitFrom(_, _, _)
SplitFrom(s, sep, i) ==
  IF i > Len(s) THEN <<>>
  ELSE IF s[i] = sep THEN SplitFrom(s, sep, i + 1)
  ELSE LET rest == Slice(s, i, Len(s))
           stop == i + FirstIn(rest, {sep}) - 1
       IN <<Slice(s, i, stop - 1)>> \o SplitFrom(s, sep, stop)

Split(s, sep) == SplitFrom(s, sep, 1)

\* ------------------------------------------------------------------------
\* extractProductNameFromUrl
\* ------------------------------------------------------------------------
\* /[a-zA-Z]{3,}/.test(seg)
HasLetterRun(seg) ==
  \E i \in 1..(Len(seg) - 2) : \A k \in i..(i + 2) : seg[k] \in LetterSet

BoilerplateSegments ==
  { <<"d","p">>, <<"p">>, <<"p","r","o","d","u","c","t">>,
    <<"i","t","e","m">>, <<"p","d">> }

\* /^\/?(dp|p|product|item|pd)$/.test(seg)
IsBoilerplate(seg) ==
  \/ seg \in BoilerplateSegments
  \/ seg # <<>> /\ Head(seg) = "/" /\ Tail(seg) \in BoilerplateSegments

\* the test of the loop body
Qualifies(seg, bestSlug) ==
  /\ Len(seg) > Len(bestSlug)
  /\ HasLetterRun(seg)
  /\ ~IsBoilerplate(seg)

\* the for loop over the segments, from bestSlug onwards
RECURSIVE BestSlug(_, _)
BestSlug(segments, bestSlug) ==
  IF segments = <<>> THEN bestSlug
  ELSE BestSlug(Tail(segments),
                IF Qualifies(Head(segments), bestSlug)
                THEN Head(segments) ELSE bestSlug)

\* the chain of replacements that turns the slug into a name
SlugToName(bestSlug) ==
  TitleCase(trim(CollapseSpaces(StripLongNumbers(StripHexIds(
    SeparatorsToSpaces(bestSlug))))))

extractProductNameFromUrl(url) ==
  IF ~UrlParses(url) THEN Null
  ELSE LET bestSlug == BestSlug(Split(Pathname(url), "/"), <<>>)
           name == SlugToName(bestSlug)
       IN IF bestSlug = <<>> THEN Null
          ELSE IF Len(name) > 3 THEN name ELSE Null

\* ------------------------------------------------------------------------
\* Natural numbers beyond 32 bits: little-endian sequences of limbs below
\* LimbBase, without leading zero limbs.  They carry the 53-bit mantissas
\* of JavaScript's numbers.
\* ------------------------------------------------------------------------
LimbBits == 14
LimbBase == 16384

Pow(b, n) == b ^ n

\* x without its leading zero limbs
BNorm(x) ==
  LET set == {i \in DOMAIN x : x[i] # 0}
  IN IF set = {} THEN <<>>
     ELSE SubSeq(x, 1, CHOOSE i \in set : \A j \in set : i >= j)

RECURSIVE BFromInt(_)
BFromInt(n) ==
  IF n = 0 THEN <<>> ELSE <<n % LimbBase>> \o BFromInt(n \div LimbBase)

RECURSIVE BToInt(_)
BToInt(x) == IF x = <<>> THEN 0 ELSE Head(x) + LimbBase * BToInt(Tail(x))

Limb(x, i) == IF i \in DOMAIN x THEN x[i] ELSE 0

\* -1, 0 or 1 as x is below, equal to or above y
BCmp(x, y) ==
  IF Len(x) # Len(y) THEN (IF Len(x) < Len(y) THEN -1 ELSE 1)
  ELSE LET diff == {i \in DOMAIN x : x[i] # y[i]}
           top == CHOOSE i \in diff : \A j \in diff : i >= j
       IN IF diff = {} THEN 0
          ELSE IF x[top] < y[top] THEN -1 ELSE 1

RECURSIVE BAddFrom(_, _, _, _)
BAddFrom(x, y, i, carry) ==
  IF i > Len(x) /\ i > Len(y)
  THEN (IF carry = 0 THEN <<>> ELSE <<carry>>)
  ELSE LET t == Limb(x, i) + Limb(y, i) + carry
       IN <<t % LimbBase>> \o BAddFrom(x, y, i + 1, t \div LimbBase)

BAdd(x, y) == BAddFrom(x, y, 1, 0)

\* x - y for x >= y
RECURSIVE BSubFrom(_, _, _, _)
BSubFrom(x, y, i, borrow) ==
  IF i > Len(x) THEN <<>>
  ELSE LET t == Limb(x, i) - Limb(y, i) - borrow
       IN IF t < 0 THEN <<t + LimbBase>> \o BSubFrom(x, y, i + 1, 1)
          ELSE <<t>> \o BSubFrom(x, y, i + 1, 0)

BSub(x, y) == BNorm(BSubFrom(x, y, 1, 0))

\* x * k for 0 <= k <= LimbBase
RECURSIVE BMulSmallFrom(_, _, _, _)
BMulSmallFrom(x, k, i, carry) ==
  IF i > Len(x) THEN (IF carry = 0 THEN <<>> ELSE <<carry>>)
  ELSE LET t == x[i] * k + carry
       IN <<t % LimbBase>> \o BMulSmallFrom(x, k, i + 1, t \div LimbBase)

BMulSmall(x, k) == BNorm(BMulSmallFrom(x, k, 1, 0))

\* x * LimbBase^n
BShiftLimbs(x, n) == IF x = <<>> THEN <<>> ELSE [i \in 1..n |-> 0] \o x

\* sum + x[i..] * y: the partial products are added one at a time, each
\* sum being complete before the next product is taken
RECURSIVE BMulFrom(_, _, _, _)
BMulFrom(x, y, i, sum) ==
  IF i > Len(x) THEN sum
  ELSE CHOOSE out \in
         {BMulFrom(x, y, i + 1, next) : next \in
         {BAdd(sum, BShiftLimbs(BMulSmall(y, x[i]), i - 1))}} : TRUE

BMul(x, y) == BMulFrom(x, y, 1, <<>>)

\* x * 2^n and floor(x / 2^n)
BShl(x, n) == BShiftLimbs(BMulSmall(x, Pow(2, n % LimbBits)), n \div LimbBits)
BShr(x, n) ==
  LET y == SubSeq(x, (n \div LimbBits) + 1, Len(x))
      bits == n % LimbBits
  IN IF n \div LimbBits >= Len(x) THEN <<>>
     ELSE BNorm([i \in DOMAIN y |->
                   (y[i] \div Pow(2, bits))
                   + (Limb(y, i + 1) % Pow(2, bits)) * Pow(2, LimbBits - bits)])

\* the number of bits of k and of x
IntBitLen(k) == Cardinality({b \in 0..30 : 2 ^ b <= k})

BBitLen(x) ==
  IF x = <<>> THEN 0 ELSE LimbBits * (Len(x) - 1) + IntBitLen(x[Len(x)])

\* bit i of x, bit 0 the lowest
BBit(x, i) == (Limb(x, (i \div LimbBits) + 1) \div Pow(2, i % LimbBits)) % 2

BIsOdd(x) == BBit(x, 0) = 1

\* the largest digit t below LimbBase with den * t <= cur, for
\* cur < den * LimbBase and a top limb of den of LimbBase / 2 or more:
\* the quotient of the top limbs is t, t + 1 or t + 2
QuotientDigit(cur, den) ==
  LET n == Len(den)
      est == (Limb(cur, n + 1) * LimbBase + Limb(cur, n)) \div den[n]
      qhat == IF est >= LimbBase THEN LimbBase - 1 ELSE est
  IN CHOOSE t \in (qhat - 2)..qhat :
       /\ t >= 0
       /\ BCmp(BMulSmall(den, t), cur) <= 0
       /\ BCmp(BMulSmall(den, t + 1), cur) > 0

\* the quotient and the remainder of floor(num / LimbBase^i) by den,
\* den > 0 with a top limb of LimbBase / 2 or more: long division, one
\* limb of num at a time
RECURSIVE BDivModTo(_, _, _)
BDivModTo(num, den, i) ==
  IF i > Len(num) - Len(den) THEN <<<<>>, SubSeq(num, i + 1, Len(num))>>
  ELSE LET prev == BDivModTo(num, den, i + 1)
           cur == <<num[i + 1]>> \o prev[2]
           t == QuotientDigit(cur, den)
       IN IF prev[2] = <<>> /\ num[i + 1] = 0
          THEN <<BNorm(<<0>> \o prev[1]), <<>>>>
          ELSE <<BNorm(<<t>> \o prev[1]), BSub(cur, BMulSmall(den, t))>>

\* the quotient and the remainder of num by den, den > 0: both are scaled
\* until the top limb of den is LimbBase / 2 or more
BDivMod(num, den) ==
  LET scale == LimbBits - IntBitLen(den[Len(den)])
      qr == BDivModTo(BShl(num, scale), BShl(den, scale), 0)
  IN <<qr[1], BShr(qr[2], scale)>>

\* ------------------------------------------------------------------------
\* JavaScript numbers: a positive finite double is m * 2^e with a 53-bit
\* mantissa m; every operation rounds to nearest, ties to even.
\* ------------------------------------------------------------------------
MantissaBits == 53

\* the double nearest to q * 2^e, plus a non-zero fraction below q's last
\* bit when sticky
Dbl(q, sticky, e) ==
  LET bl == BBitLen(q)
      k == bl - MantissaBits
      m0 == BShr(q, k)
      low == BSub(q, BShl(m0, k))
      cmp == BCmp(low, BShl(<<1>>, k - 1))
      up == cmp > 0 \/ (cmp = 0 /\ (sticky \/ BIsOdd(m0)))
      m1 == IF up THEN BAdd(m0, <<1>>) ELSE m0
  IN IF k <= 0 THEN [m |-> BShl(q, -k), e |-> e + k]
     ELSE IF BBitLen(m1) > MantissaBits
     THEN [m |-> BShr(m1, 1), e |-> e + k + 1]
     ELSE [m |-> m1, e |-> e + k]

\* the double nearest to (num / den) * 2^e, for a quotient of more than
\* MantissaBits + 1 bits
DblRounded(num, den, e) ==
  LET qr == BDivMod(num, den)
  IN Dbl(qr[1], qr[2] # <<>>, e)

\* the double nearest to (p / q) * 2^e
DblQuot(p, q, e) ==
  LET s == MantissaBits + 2 + BBitLen(q) - BBitLen(p)
  IN IF s >= 0 THEN DblRounded(BShl(p, s), q, e - s)
     ELSE DblRounded(p, BShl(q, -s), e - s)

DblFromInt(n) == Dbl(BFromInt(n), FALSE, 0)

\* the value of the decimal literal n / 10^k, as parseFloat and JSON.parse
\* read it
DblFromDecimal(n, k) == DblQuot(BFromInt(n), BFromInt(Pow(10, k)), 0)

\* a * b and a / b
\* both operands are values before the operation starts
DblMul(a, b) ==
  CHOOSE out \in {Dbl(BMul(x.m, y.m), FALSE, x.e + y.e) : x \in {a}, y \in {b}} : TRUE
DblDiv(a, b) ==
  CHOOSE out \in {DblQuot(x.m, y.m, x.e - y.e) : x \in {a}, y \in {b}} : TRUE

\* Math.round: the nearest integer, a tie going up
MathRound(d) ==
  IF d.e >= 0 THEN BToInt(BShl(d.m, d.e))
  ELSE BToInt(BShr(BAdd(d.m, BShl(<<1>>, (-d.e) - 1)), -d.e))

\* ------------------------------------------------------------------------
\* Prices and currencies
\* ------------------------------------------------------------------------
\* A JavaScript number or null is <<kind, n, k>>: <<"num", n, k>> is the
\* double nearest to n / 10^k (n not a multiple of 10 unless k = 0).
NullNum == <<"null", 0, 0>>
NaN == <<"nan", 0, 0>>
Infinity == <<"inf", 0, 0>>
Num(n, k) == <<"num", n, k>>

\* the currency signs, each one character
Rupee == "RUPEE"
Euro == "EURO"
Pound == "POUND"
Yen == "YEN"

USD == <<"U","S","D">>
EUR == <<"E","U","R">>
GBP == <<"G","B","P">>
JPY == <<"J","P","Y">>
INR == <<"I","N","R">>

\* !str for a string or null
Falsy(str) == str = Null \/ str = <<>>

\* a truthy value that is neither a string nor null: a number, or the object
\* axios hands over for a JSON body
NotAString == <<"OBJECT">>

detectCurrency(priceStr) ==
  IF Falsy(priceStr) THEN USD
  ELSE IF Rupee \in Range(priceStr)
          \/ includes(toLowerCase(priceStr), <<"i","n","r">>) THEN INR
  ELSE IF Euro \in Range(priceStr) THEN EUR
  ELSE IF Pound \in Range(priceStr) THEN GBP
  ELSE IF Yen \in Range(priceStr) THEN JPY
  ELSE USD

IsNumeric(c) == c \in DigitSet \cup {"."}
IsDigit(c) == c \in DigitSet

\* the value of a string of digits
RECURSIVE DigitsValue(_)
DigitsValue(ds) ==
  IF ds = <<>> THEN 0
  ELSE 10 * DigitsValue(SubSeq(ds, 1, Len(ds) - 1))
         + (IndexOf(DigitSeq, ds[Len(ds)]) - 1)

\* n / 10^k without trailing zeros in the fraction
RECURSIVE Canonical(_, _)
Canonical(n, k) ==
  IF k > 0 /\ n % 10 = 0 THEN Canonical(n \div 10, k - 1) ELSE Num(n, k)

\* parseFloat on a string of digits and dots: the longest prefix that is a
\* decimal literal, NaN when there is none
parseFloat(cleaned) ==
  LET whole == Slice(cleaned, 1, FirstIn(cleaned, {"."}) - 1)
      rest == Slice(cleaned, Len(whole) + 2, Len(cleaned))
      frac == Slice(rest, 1, FirstIn(rest, {"."}) - 1)
  IN IF whole = <<>> /\ frac = <<>> THEN NaN
     ELSE Canonical(DigitsValue(whole \o frac), Len(frac))

parseNumericPrice(str) ==
  IF Falsy(str) THEN NullNum
  ELSE LET num == parseFloat(SelectSeq(str, IsNumeric))
       IN IF num = NaN THEN NullNum ELSE num

\* ------------------------------------------------------------------------
\* The exchange-rate cache: getINRRate and toINR
\* ------------------------------------------------------------------------
\* Date.now() and ratesFetchedAt count minutes
RateTtlMinutes == 30
DefaultRate == 83

\* exchangeRates maps currency codes to decimal literals <<n, k>>
NoRates == <<>>
FallbackRates ==
  [c \in {USD, EUR, GBP, JPY, INR} |->
     IF c = USD THEN <<12, 3>>
     ELSE IF c = EUR THEN <<11, 3>>
     ELSE IF c = GBP THEN <<95, 4>>
     ELSE IF c = JPY THEN <<18, 1>>
     ELSE <<1, 0>>]

\* exchangeRates[code] is undefined or 0
NoRate(rates, code) == code \notin DOMAIN rates \/ rates[code][1] = 0

\* a cache that is never refreshed
NeverRefreshes(rates, fetchedAt, now, fromCurrency) == FALSE

\* a cache that is refreshed for a missing code only, whatever its age
MissingOnly(rates, fetchedAt, now, fromCurrency) == NoRate(rates, fromCurrency)

\* the condition of the if statement
NeedsRefresh(rates, fetchedAt, now, fromCurrency) ==
  now - fetchedAt > RateTtlMinutes \/ NoRate(rates, fromCurrency)

\* what getINRRate returns once the cache is settled: a double
\* getINRRate with the final inversion left out
RateNotInverted(rates, fromCurrency) ==
  LET upper == toUpperCase(fromCurrency)
  IN IF upper = INR THEN DblFromInt(1)
     ELSE IF NoRate(rates, upper) THEN DblFromInt(DefaultRate)
     ELSE DblFromDecimal(rates[upper][1], rates[upper][2])

RateToINR(rates, fromCurrency) ==
  LET upper == toUpperCase(fromCurrency)
  IN IF upper = INR THEN DblFromInt(1)
     ELSE IF NoRate(rates, upper) THEN DblFromInt(DefaultRate)
     ELSE DblDiv(DblFromInt(1), DblFromDecimal(rates[upper][1], rates[upper][2]))

\* !amount || isNaN(amount)
\* every amount taken for a missing one
AlwaysNoAmount(amount) == TRUE

NoAmount(amount) == amount[1] \in {"null", "nan"} \/ (amount[1] = "num" /\ amount[2] = 0)

\* Math.round(amount * rate) for an amount that passed the test
RoundedProduct(amount, rate) ==
  IF amount[1] = "inf" THEN Infinity
  ELSE Num(MathRound(DblMul(DblFromDecimal(amount[2], amount[3]), rate)), 0)

\* what the exchange-rate service answers on success: every rate, or a
\* table that lacks currencies
LiveRates ==
  [c \in {USD, EUR, GBP, JPY, INR, <<"A","E","D">>} |->
     IF c = USD THEN <<125, 4>>
     ELSE IF c = EUR THEN <<104, 4>>
     ELSE IF c = GBP THEN <<95, 4>>
     ELSE IF c = JPY THEN <<18, 1>>
     ELSE IF c = INR THEN <<1, 0>>
     ELSE <<44, 3>>]

SparseRates == [c \in {USD, INR} |-> IF c = USD THEN <<12, 3>> ELSE <<1, 0>>]

\* how the awaited axios.get of getINRRate can end
RefreshOutcomes ==
  {[ok |-> TRUE, rates |-> LiveRates], [ok |-> TRUE, rates |-> SparseRates],
   [ok |-> FALSE, rates |-> NoRates]}

\* exchangeRates and ratesFetchedAt after the try / catch, for a call that
\* read Date.now() as now
RatesAfter(outcome) == IF outcome.ok THEN outcome.rates ELSE FallbackRates
\* a catch that resets the age of the cache
FetchedAtReset(outcome, now, fetchedAt) == now

FetchedAtAfter(outcome, now, fetchedAt) == IF outcome.ok THEN now ELSE fetchedAt

\* ------------------------------------------------------------------------
\* One call of toINR on its own, from any state the cache can be in
\* ------------------------------------------------------------------------
\* Date.now() at the call
NowMinute == 1000

\* the cache as earlier calls can have left it
Snapshots ==
  { <<NoRates, 0>>, <<FallbackRates, 0>>, <<FallbackRates, NowMinute - 10>>,
    <<SparseRates, NowMinute>>, <<LiveRates, NowMinute>>,
    <<LiveRates, NowMinute - RateTtlMinutes>>,
    <<LiveRates, NowMinute - RateTtlMinutes - 1>> }

Amounts ==
  { NullNum, NaN, Infinity, Num(0, 0), Num(255, 1), Num(3, 2), Num(57, 2),
    Num(1999, 0), Num(5, 1), Num(1, 0), Num(21, 2) }

Currencies == { USD, <<"u","s","d">>, EUR, INR, <<"A","E","D">> }

\* the cache is in one of the given states
RatesAmong(snapshots) ==
  /\ clock = NowMinute
  /\ \E snapshot \in snapshots : /\ exchangeRates = snapshot[1]
                                  /\ ratesFetchedAt = snapshot[2]

\* toINR has not been called yet
ToINRReady ==
  /\ toinrPc = "idle"
  /\ toinrAmount = NullNum
  /\ toinrCurrency = Null
  /\ toinrNow = 0
  /\ toinrResult = NullNum
  /\ toinrLookups = 0
  /\ toinrRefresh = "none"

\* no call of toINR is under test
ToINRIdle ==
  /\ toinrPc = "off"
  /\ toinrAmount = NullNum
  /\ toinrCurrency = Null
  /\ toinrNow = 0
  /\ toinrResult = NullNum
  /\ toinrLookups = 0
  /\ toinrRefresh = "none"

\* toINR(amount, currency) up to its return or to the await of the refresh
ToINRBegin(amount, currency) ==
  /\ toinrPc = "idle"
  /\ toinrAmount' = amount
  /\ toinrCurrency' = currency
  /\ IF NoAmount(amount)
     THEN /\ toinrResult' = NullNum
          /\ toinrPc' = "done"
          /\ UNCHANGED <<toinrNow, toinrLookups>>
     ELSE /\ toinrNow' = clock
          /\ toinrLookups' = toinrLookups + 1
          /\ IF NeedsRefresh(exchangeRates, ratesFetchedAt, clock, currency)
             THEN /\ toinrPc' = "refreshing"
                  /\ UNCHANGED toinrResult
             ELSE /\ toinrPc' = "done"
                  /\ toinrResult' =
                       RoundedProduct(amount, RateToINR(exchangeRates, currency))
  /\ UNCHANGED <<exchangeRates, ratesFetchedAt, clock, toinrRefresh>>

\* the refresh settles, getINRRate returns and toINR rounds
ToINRSettle(outcome) ==
  /\ toinrPc = "refreshing"
  /\ exchangeRates' = RatesAfter(outcome)
  /\ ratesFetchedAt' = FetchedAtAfter(outcome, toinrNow, ratesFetchedAt)
  /\ toinrRefresh' = IF outcome.ok THEN "ok" ELSE "failed"
  /\ toinrResult' =
       IF toinrCurrency = NotAString
       THEN \* fromCurrency.toUpperCase is not a function: the call rejects
            NullNum
       ELSE RoundedProduct(toinrAmount, RateToINR(RatesAfter(outcome), toinrCurrency))
  /\ toinrPc' = "done"
  /\ UNCHANGED <<clock, toinrAmount, toinrCurrency, toinrNow, toinrLookups>>

ToINRCall == \E amount \in Amounts, currency \in Currencies :
               ToINRBegin(amount, currency)
ToINRRefreshed == \E outcome \in RefreshOutcomes : ToINRSettle(outcome)

\* ------------------------------------------------------------------------
\* Calls of extractProductNameFromUrl on their own
\* ------------------------------------------------------------------------
\* the longest path the URLs under test have, in segments
MaxSegments == 2

ExampleOrigin == HttpsPrefix \o <<"e","x","a","m","p","l","e",".","c","o","m">>

SegmentPool ==
  { <<"d","p">>,
    <<"a","m","a","z","i","n","g","-","w","i","r","e","l","e","s","s","-","h","e","a","d","p","h","o","n","e","s","-","B","0","8","X","Y","Z","1","2","3">>,
    <<"p","r","o","d","u","c","t">>,
    <<"i","t","e","m">>,
    <<"1","2","3","4","5","6","7","8">>,
    <<"d","e","a","d","b","e","e","f","9","9","-","p","h","o","n","e","_","c","a","s","e">>,
    <<"t","v">>,
    <<"i","p","h","o","n","e","-","1","5","-","p","r","o","-","2","5","6","g","b","-","2","0","2","4">>,
    <<"a","b","c">>,
    <<"c","a","f","e","b","a","b","e","1","2","3","4","5","6","7","8">>,
    <<"M","e","n","_","S","h","o","e","s",".","h","t","m","l">> }

RECURSIVE JoinPath(_)
JoinPath(segments) ==
  IF segments = <<>> THEN <<>>
  ELSE <<"/">> \o Head(segments) \o JoinPath(Tail(segments))

UrlEndings == { <<>>, <<"/">>, <<"?","r","e","f","=","s","r","_","1">> }

SlugUrls ==
  { ExampleOrigin \o JoinPath(segments) \o ending :
      segments \in UNION {[1..n -> SegmentPool] : n \in 0..MaxSegments},
      ending \in UrlEndings }
  \cup { <<"e","x","a","m","p","l","e",".","c","o","m","/","d","p","/","w","i","d","g","e","t","-","p","r","o">>, <<>> }

ExampleUrl == ExampleOrigin \o <<"/","d","p","/","a","m","a","z","i","n","g","-","w","i","r","e","l","e","s","s","-","h","e","a","d","p","h","o","n","e","s","-","B","0","8","X","Y","Z","1","2","3","/">>

AmazingWirelessHeadphones == <<"A","m","a","z","i","n","g"," ","W","i","r","e","l","e","s","s"," ","H","e","a","d","p","h","o","n","e","s">>

SlugInit ==
  /\ slugUrl \in SlugUrls
  /\ slugName = Null
  /\ slugDone = FALSE

\* no call of extractProductNameFromUrl is under test
SlugIdle ==
  /\ slugUrl = Null
  /\ slugName = Null
  /\ slugDone = TRUE

SlugCall ==
  /\ ~slugDone
  /\ slugName' = extractProductNameFromUrl(slugUrl)
  /\ slugDone' = TRUE
  /\ UNCHANGED slugUrl

\* ------------------------------------------------------------------------
\* cleanHTML
\* ------------------------------------------------------------------------
\* marks a character a replacement drops
Deleted == "DEL"
NotDeleted(c) == c # Deleted

\* pat at position i of s, letters compared without case (regex flag i)
MatchAtCI(s, pat, i) ==
  /\ i >= 1
  /\ i + Len(pat) - 1 <= Len(s)
  /\ \A k \in 1..Len(pat) : LowerChar(s[i + k - 1]) = LowerChar(pat[k])

\* the first position >= from where pat occurs in s, or 0
FirstMatch(s, pat, from, ci) ==
  LET hits == {i \in from..(Len(s) - Len(pat) + 1) :
                 IF ci THEN MatchAtCI(s, pat, i) ELSE MatchAt(s, pat, i)}
  IN IF hits = {} THEN 0
     ELSE CHOOSE i \in hits : \A j \in hits : i <= j

\* s.replace(/open[\s\S]*?close/g, '') from position i on: the leftmost
\* open, the first close after it, and on from there
RECURSIVE RemoveDelimitedFrom(_, _, _, _, _)
RemoveDelimitedFrom(s, open, close, ci, i) ==
  LET p == FirstMatch(s, open, i, ci)
      q == IF p = 0 THEN 0 ELSE FirstMatch(s, close, p + Len(open), ci)
  IN IF p = 0 \/ q = 0 THEN Slice(s, i, Len(s))
     ELSE Slice(s, i, p - 1)
            \o RemoveDelimitedFrom(s, open, close, ci, q + Len(close))

RemoveDelimited(s, open, close, ci) == RemoveDelimitedFrom(s, open, close, ci, 1)

\* s.replace(/<name[\s\S]*?<\/name>/gi, '')
RemoveElement(s, name) ==
  RemoveDelimited(s, <<"<">> \o name, <<"<", "/">> \o name \o <<">">>, TRUE)

\* s.replace(/<!--[\s\S]*?-->/g, '')
RemoveComments(s) ==
  RemoveDelimited(s, <<"<","!","-","-">>, <<"-","-",">">>, FALSE)

\* s.replace(/<[^>]+>/g, ' ') from position i on: a tag starts at a '<'
\* whose next character is not '>' and ends at the first '>' after that
RECURSIVE StripTagsFrom(_, _)
StripTagsFrom(s, i) ==
  LET opens == {p \in i..(Len(s) - 2) :
                  /\ s[p] = "<"
                  /\ s[p + 1] # ">"
                  /\ \E q \in (p + 2)..Len(s) : s[q] = ">"}
      p == CHOOSE x \in opens : \A y \in opens : x <= y
      q == CHOOSE x \in (p + 2)..Len(s) :
             s[x] = ">" /\ \A y \in (p + 2)..(x - 1) : s[y] # ">"
  IN IF opens = {} THEN Slice(s, i, Len(s))
     ELSE Slice(s, i, p - 1) \o <<" ">> \o StripTagsFrom(s, q + 1)

\* the replacement without the g flag: only the first tag goes
StripFirstTag(s) ==
  LET opens == {p \in 1..(Len(s) - 2) :
                  /\ s[p] = "<"
                  /\ s[p + 1] # ">"
                  /\ \E q \in (p + 2)..Len(s) : s[q] = ">"}
      p == CHOOSE x \in opens : \A y \in opens : x <= y
      q == CHOOSE x \in (p + 2)..Len(s) :
             s[x] = ">" /\ \A y \in (p + 2)..(x - 1) : s[y] # ">"
  IN IF opens = {} THEN s
     ELSE Slice(s, 1, p - 1) \o <<" ">> \o Slice(s, q + 1, Len(s))

StripTags(s) == StripTagsFrom(s, 1)

\* s.replace(/pat/g, c) for a pattern that cannot overlap itself and a
\* one-character replacement
ReplaceAll(s, pat, c) ==
  LET mark(i) ==
        IF MatchAt(s, pat, i) THEN c
        ELSE IF \E k \in 1..(Len(pat) - 1) : MatchAt(s, pat, i - k)
             THEN Deleted
             ELSE s[i]
  IN SelectSeq([i \in DOMAIN s |-> mark(i)], NotDeleted)

\* s.replace(/\s{2}/g, ' '): the quantifier without its comma, so that
\* every pair of whitespace characters becomes one space
CollapsePairs(s) ==
  LET ws(i) == i \in DOMAIN s /\ s[i] \in SpaceSet
      \* the place of i in its run of whitespace
      place(i) == i - Max(0, CHOOSE j \in 0..(i - 1) :
                              /\ ~ws(j)
                              /\ \A k \in (j + 1)..(i - 1) : ws(k))
      mark(i) ==
        IF ~ws(i) THEN s[i]
        ELSE IF place(i) % 2 = 0 THEN Deleted
        ELSE IF ws(i + 1) THEN " "
        ELSE s[i]
  IN SelectSeq([i \in DOMAIN s |-> mark(i)], NotDeleted)

\* s.replace(/\s{2,}/g, ' '): a run of two or more becomes one space, a
\* single whitespace character stays what it is
CollapseWhitespace(s) ==
  LET ws(i) == i \in DOMAIN s /\ s[i] \in SpaceSet
      mark(i) ==
        IF ~ws(i) THEN s[i]
        ELSE IF ws(i - 1) THEN Deleted
        ELSE IF ws(i + 1) THEN " "
        ELSE s[i]
  IN SelectSeq([i \in DOMAIN s |-> mark(i)], NotDeleted)

\* the budget of cleaned.slice(0, 8000)
CleanCap == 8000

ScriptTag == <<"s","c","r","i","p","t">>
StyleTag == <<"s","t","y","l","e">>
NavTag == <<"n","a","v">>
FooterTag == <<"f","o","o","t","e","r">>
HeaderTag == <<"h","e","a","d","e","r">>
AsideTag == <<"a","s","i","d","e">>
IframeTag == <<"i","f","r","a","m","e">>
SvgTag == <<"s","v","g">>

EntNbsp == <<"&","n","b","s","p",";">>
EntAmp == <<"&","a","m","p",";">>
EntLt == <<"&","l","t",";">>
EntGt == <<"&","g","t",";">>

\* A chain of replace calls is a nest of singleton sets: the value of every
\* call exists before the next call is made, as in the code.

\* the eight element removals and the comment removal, in the code's order
RemoveJunk(html) ==
  CHOOSE out \in
    {RemoveComments(s) : s \in
    {RemoveElement(s, SvgTag) : s \in
    {RemoveElement(s, IframeTag) : s \in
    {RemoveElement(s, AsideTag) : s \in
    {RemoveElement(s, HeaderTag) : s \in
    {RemoveElement(s, FooterTag) : s \in
    {RemoveElement(s, NavTag) : s \in
    {RemoveElement(s, StyleTag) : s \in
    {RemoveElement(html, ScriptTag)}}}}}}}}} : TRUE

\* up to and including the decoding of &amp;
DecodeAmp(html) ==
  CHOOSE out \in
    {ReplaceAll(s, EntAmp, "&") : s \in
    {ReplaceAll(s, EntNbsp, " ") : s \in
    {StripTags(s) : s \in
    {RemoveJunk(html)}}}} : TRUE

\* the decoding of &lt; and &gt;
DecodeAngles(s) ==
  CHOOSE out \in {ReplaceAll(lt, EntGt, ">") : lt \in {ReplaceAll(s, EntLt, "<")}} : TRUE

cleanHTML(html) ==
  CHOOSE out \in
    {Slice(cleaned, 1, Min(Len(cleaned), CleanCap)) : cleaned \in
    {trim(s) : s \in
    {CollapseWhitespace(s) : s \in
    {DecodeAngles(s) : s \in
    {DecodeAmp(html)}}}}} : TRUE

\* ------------------------------------------------------------------------
\* Calls of cleanHTML on their own
\* ------------------------------------------------------------------------
\* how many tokens the generated inputs are made of
MaxTokens == 3
\* how often the long inputs repeat their three characters
LongRepeats == 2700

HtmlTokens ==
  { <<"<","p",">">>,
    <<"<","s","c","r","i","p","t",">">>,
    <<"<","/","S","C","R","I","P","T",">">>,
    <<"<","!","-","-">>,
    <<"-","-",">">>,
    <<"a">>,
    <<" ">>,
    <<"\n">>,
    <<"&","l","t",";">>,
    <<"&","a","m","p",";">>,
    <<"l","t",";">>,
    <<"<">>,
    <<">">> }

\* s repeated n times
Repeat(s, n) == [i \in 1..(n * Len(s)) |-> s[((i - 1) % Len(s)) + 1]]

LongText == Repeat(<<"a","b"," ">>, LongRepeats)

SamplePage ==
    <<"<","h","t","m","l",">","<","h","e","a","d","e","r",">","T","o","p",
    "<","/","h","e","a","d","e","r",">","<","n","a","v",">","m","e","n","u",
    "<","/","n","a","v",">","<","s","t","y","l","e",">","p","{","}","<","/",
    "s","t","y","l","e",">","<","p",">","P","r","i","c","e"," ","&","a","m",
    "p",";"," ","m","o","r","e","<","/","p",">","<","a","s","i","d","e",">",
    "a","d","<","/","a","s","i","d","e",">","<","i","f","r","a","m","e"," ",
    "s","r","c","=","\"","x","\"",">","<","/","i","f","r","a","m","e",">",
    "<","s","v","g",">","<","g","/",">","<","/","s","v","g",">","<","f","o",
    "o","t","e","r",">","b","y","e","<","/","f","o","o","t","e","r",">","<",
    "/","h","t","m","l",">">>

CleanInputs ==
  { Concat(tokens) :
      tokens \in UNION {[1..n -> HtmlTokens] : n \in 0..MaxTokens} }
  \cup { SamplePage, LongText, <<"a"," ","\n"," ","b">>,
         <<"<","p",">">> \o LongText \o <<"<","/","p",">">>,
         <<"<","p",">">> \o LongText \o <<"&","g","t",";","<","/","p",">">> }

\* every '<' opens a tag or comment that the next '>' closes, no tag is
\* empty, and '>' occurs nowhere else
WellFormed(html) ==
  LET delim(i) == html[i] \in {"<", ">"}
  IN /\ \A i \in DOMAIN html : html[i] = "<" =>
          \E j \in (i + 2)..Len(html) :
             html[j] = ">" /\ \A k \in (i + 1)..(j - 1) : ~delim(k)
     /\ \A j \in DOMAIN html : html[j] = ">" =>
          \E i \in 1..(j - 2) :
             html[i] = "<" /\ \A k \in (i + 1)..(j - 1) : ~delim(k)

CleanInit ==
  /\ htmlIn \in CleanInputs
  /\ cleanOut = Null
  /\ cleanDone = FALSE
  /\ cleanTwice = Null

\* no call of cleanHTML is under test
CleanIdle ==
  /\ htmlIn = Null
  /\ cleanOut = Null
  /\ cleanDone = TRUE
  /\ cleanTwice = Null

CleanCall ==
  /\ ~cleanDone
  /\ cleanOut' = cleanHTML(htmlIn)
  /\ cleanDone' = TRUE
  /\ UNCHANGED <<htmlIn, cleanTwice>>

\* cleanHTML called on its own output
CleanAgain ==
  /\ cleanDone
  /\ cleanTwice = Null
  /\ cleanTwice' = cleanHTML(cleanOut)
  /\ UNCHANGED <<htmlIn, cleanOut, cleanDone>>

\* ------------------------------------------------------------------------
\* POST /scrape: the responses and the checks of the pipeline
\* ------------------------------------------------------------------------
GEMINI_MODELS == <<"gemini-2.0-flash", "gemini-2.0-flash-001", "gemini-2.5-flash">>

MinHtmlLength == 500
MinTextLength == 200
MinNameLength == 3
MaxDescription == 3

\* s.replace(pat, '') for a string pat: the first occurrence goes
RemoveFirst(s, pat) ==
  LET at == FirstMatch(s, pat, 1, FALSE)
  IN IF at = 0 THEN s
     ELSE Slice(s, 1, at - 1) \o Slice(s, at + Len(pat), Len(s))

getWebsiteName(url) ==
  IF ~UrlParses(url) THEN <<"W","e","b","s","i","t","e">>
  ELSE LET hostname == RemoveFirst(Hostname(url), <<"w","w","w",".">>)
           name == Slice(hostname, 1, FirstIn(hostname, {"."}) - 1)
       IN IF name = <<>> THEN <<>>
          ELSE <<UpperChar(name[1])>> \o Slice(name, 2, Len(name))

\* n.toLocaleString('en-IN') for a natural number: the last three digits,
\* then groups of two
RECURSIVE DigitsOf(_)
DigitsOf(n) ==
  IF n < 10 THEN <<DigitSeq[n + 1]>>
  ELSE Append(DigitsOf(n \div 10), DigitSeq[(n % 10) + 1])

RECURSIVE GroupPairs(_)
GroupPairs(ds) ==
  IF Len(ds) <= 2 THEN ds
  ELSE GroupPairs(SubSeq(ds, 1, Len(ds) - 2)) \o <<",">>
         \o SubSeq(ds, Len(ds) - 1, Len(ds))

toLocaleString(price) ==
  IF price[1] = "inf" THEN <<"INFINITY">>
  ELSE LET ds == DigitsOf(price[2])
       IN IF Len(ds) <= 3 THEN ds
          ELSE GroupPairs(SubSeq(ds, 1, Len(ds) - 3)) \o <<",">>
                 \o SubSeq(ds, Len(ds) - 2, Len(ds))

\* a number in a condition
Truthy(price) == price[1] = "inf" \/ (price[1] = "num" /\ price[2] # 0)

ProductName == <<"P","r","o","d","u","c","t">>

\* the two blocker messages carry the name of the site
BlockedMessage(websiteName) == <<"blocked: name extracted from the URL", websiteName>>
BlockedCatchMessage(websiteName) == <<"blocked: similar products based on the URL", websiteName>>

BadRequest == [status |-> 400, error |-> "URL is required"]
InternalError == [status |-> 500, error |-> "Failed to extract product data"]
NoResponse == [status |-> 0]

\* a blocked payload that still carries a price and a description
BlockedWithPrice(url, websiteName) ==
  [status |-> 200,
   blocked |-> TRUE,
   name |-> ProductName,
   searchQuery |-> Null,
   price |-> Num(0, 0),
   priceText |-> Null,
   description |-> <<ProductName>>,
   image |-> <<>>,
   url |-> url,
   websiteName |-> websiteName,
   blockerMessage |-> BlockedMessage(websiteName)]

blockedResponse(url, websiteName) ==
  LET slug == extractProductNameFromUrl(url)
  IN [status |-> 200,
      blocked |-> TRUE,
      name |-> IF Falsy(slug) THEN ProductName ELSE slug,
      searchQuery |-> slug,
      price |-> NullNum,
      priceText |-> Null,
      description |-> <<>>,
      image |-> <<>>,
      url |-> url,
      websiteName |-> websiteName,
      blockerMessage |-> BlockedMessage(websiteName)]

\* the outer catch with every error answered by a 500
InternalErrorOnly(url, websiteName) == InternalError

\* the outer catch
CatchResponse(url, websiteName) ==
  LET slug == extractProductNameFromUrl(url)
  IN IF ~Falsy(slug)
     THEN [status |-> 200,
           blocked |-> TRUE,
           name |-> slug,
           searchQuery |-> slug,
           price |-> NullNum,
           priceText |-> Null,
           description |-> <<>>,
           image |-> <<>>,
           url |-> url,
           websiteName |-> websiteName,
           blockerMessage |-> BlockedCatchMessage(websiteName)]
     ELSE InternalError

\* the response of step 4
DoneResponse(extracted, priceINR, currency, url, websiteName) ==
  [status |-> 200,
   blocked |-> FALSE,
   name |-> extracted.name,
   searchQuery |-> extracted.name,
   price |-> priceINR,
   priceText |-> IF Truthy(priceINR) THEN <<Rupee>> \o toLocaleString(priceINR)
                 ELSE extracted.priceText,
   originalPrice |-> extracted.priceText,
   currency |-> currency,
   description |-> IF extracted.description = Null THEN <<>>
                   ELSE Slice(extracted.description, 1,
                              Min(MaxDescription, Len(extracted.description))),
   image |-> IF Falsy(extracted.image) THEN <<>> ELSE extracted.image,
   url |-> url,
   websiteName |-> websiteName]

\* fetchFailed || !html || html.length < 500, with only the failure of the
\* fetch left
FetchFailedOnly(fetchFailed, html) == fetchFailed

\* fetchFailed || !html || html.length < 500; a JSON body has no length
Inaccessible(fetchFailed, html) ==
  \/ fetchFailed
  \/ Falsy(html)
  \/ html # NotAString /\ Len(html) < MinHtmlLength

\* the bot-check test left out
NeverBotCheck(cleanedText) == FALSE

\* a bot-check test that lets a text of 199 characters through
BotCheckBelow(cleanedText) == Len(cleanedText) < MinTextLength - 1

\* cleanedText.length < 200
BotCheck(cleanedText) == Len(cleanedText) < MinTextLength

\* only the absent name rejected
NameMissing(name) == Falsy(name)

\* isUnknown for a name that is a string or absent
isUnknown(name) ==
  \/ Falsy(name)
  \/ includes(toLowerCase(name), <<"u","n","k","n","o","w","n">>)
  \/ Len(trim(name)) < MinNameLength

\* extracted.currency || detectCurrency(extracted.priceText)
CurrencyOf(extracted) ==
  IF Falsy(extracted.currency) THEN detectCurrency(extracted.priceText)
  ELSE extracted.currency

\* ------------------------------------------------------------------------
\* POST /scrape: one request, from its arrival to its response
\* ------------------------------------------------------------------------
\* what a fetch can bring back
PlainPage(n) == [i \in 1..n |-> "a"]
CommentedPage(n) ==
  <<"<","!","-","-">> \o [i \in 1..MinHtmlLength |-> "x"] \o <<"-","-",">">>
    \o PlainPage(n)
CaptchaPage ==
  <<"<","s","c","r","i","p","t",">">> \o [i \in 1..MinHtmlLength |-> "x"]
    \o <<"<","/","s","c","r","i","p","t",">","<","p",">","R","o","b","o","t",
    " ","c","h","e","c","k","<","/","p",">">>

RenderedPages ==
  { <<>>, PlainPage(MinHtmlLength - 1), PlainPage(MinHtmlLength), CaptchaPage,
    CommentedPage(MinTextLength - 1), CommentedPage(MinTextLength) }

\* axios parses a JSON body into an object
StaticBodies == RenderedPages \cup {NotAString}

RenderOutcomes ==
  {[ok |-> FALSE, page |-> Null]} \cup {[ok |-> TRUE, page |-> b] : b \in RenderedPages}
StaticOutcomes ==
  {[ok |-> FALSE, page |-> Null]} \cup {[ok |-> TRUE, page |-> b] : b \in StaticBodies}

\* what a model can answer
Widget == <<"W","i","d","g","e","t">>
UnknownProduct == <<"U","n","k","n","o","w","n"," ","P","r","o","d","u","c","t">>
PaddedName == <<" ","a","b"," ">>
RupeePrice == <<Rupee,"1",",","9","9","9">>
RupeePriceWithPaise == <<Rupee,"2","4",",","9","9","9",".","0","0">>
DollarPrice == <<"$","2","5",".","5","0">>
NotAvailable == <<"N","/","A">>
PlainPrice == <<"1","9","9","9">>
AED == <<"A","E","D">>
ImageUrl == <<"h","t","t","p","s",":","/","/","e","x","a","m","p","l","e",".","c",
    "o","m","/","w",".","p","n","g">>
ThreeFeatures == <<"feature 1", "feature 2", "feature 3">>
FourFeatures == <<"feature 1", "feature 2", "feature 3", "feature 4">>

Extraction(name, priceText, currency, description, image) ==
  [name |-> name, priceText |-> priceText, currency |-> currency,
   description |-> description, image |-> image]

NoExtraction == Extraction(Null, Null, Null, Null, Null)

Extractions ==
  { Extraction(Widget, RupeePrice, INR, ThreeFeatures, <<>>),
    Extraction(Widget, RupeePrice, Null, Null, Null),
    Extraction(Widget, RupeePriceWithPaise, INR, FourFeatures, ImageUrl),
    Extraction(Widget, DollarPrice, USD, FourFeatures, ImageUrl),
    Extraction(Widget, DollarPrice, Null, ThreeFeatures, Null),
    Extraction(Widget, PlainPrice, AED, Null, Null),
    Extraction(Widget, Null, Null, Null, Null),
    Extraction(Widget, NotAvailable, INR, ThreeFeatures, Null),
    Extraction(Widget, NotAString, INR, ThreeFeatures, Null),
    Extraction(UnknownProduct, RupeePrice, INR, ThreeFeatures, Null),
    Extraction(Null, RupeePrice, INR, ThreeFeatures, Null),
    Extraction(<<"a","b">>, RupeePrice, INR, ThreeFeatures, Null),
    Extraction(PaddedName, RupeePrice, INR, ThreeFeatures, Null),
    Extraction(NotAString, RupeePrice, INR, ThreeFeatures, Null),
    Extraction(Widget, RupeePrice, INR, NotAString, Null),
    Extraction(Widget, NotAvailable, Null, NotAString, Null),
    Extraction(Widget, DollarPrice, NotAString, ThreeFeatures, Null),
    Extraction(Widget, Null, NotAString, ThreeFeatures, Null) }

\* the url of the request body: absent, with a slug, without one
HomeUrl == ExampleOrigin \o <<"/">>
ScrapeUrls == { Null, ExampleUrl, HomeUrl }

\* the cache when the request arrives: empty, fresh, stale, the fallback
\* table
ScrapeSnapshots ==
  { <<NoRates, 0>>, <<LiveRates, NowMinute>>,
    <<LiveRates, NowMinute - RateTtlMinutes - 1>>,
    <<FallbackRates, NowMinute - 10>> }

ScrapeInit ==
  /\ IS_CLOUD \in BOOLEAN
  /\ scrPc = "idle"
  /\ scrUrl = Null
  /\ scrWebsite = Null
  /\ scrHtml = Null
  /\ scrFetchFailed = FALSE
  /\ scrCleaned = Null
  /\ scrModel = 0
  /\ scrExtracted = NoExtraction
  /\ scrNumericPrice = NullNum
  /\ scrCurrency = Null
  /\ scrError = FALSE
  /\ scrResponse = NoResponse
  /\ scrResponses = 0
  /\ scrCalls = [f \in {"render", "static", "clean", "model", "validate", "convert"} |-> 0]

\* no request is under test
ScrapeIdle ==
  /\ IS_CLOUD = FALSE
  /\ scrPc = "off"
  /\ scrUrl = Null
  /\ scrWebsite = Null
  /\ scrHtml = Null
  /\ scrFetchFailed = FALSE
  /\ scrCleaned = Null
  /\ scrModel = 0
  /\ scrExtracted = NoExtraction
  /\ scrNumericPrice = NullNum
  /\ scrCurrency = Null
  /\ scrError = FALSE
  /\ scrResponse = NoResponse
  /\ scrResponses = 0
  /\ scrCalls = [f \in {"render", "static", "clean", "model", "validate", "convert"} |-> 0]

\* res.json or res.status(...).json ends the handler
Respond(r) ==
  /\ scrResponse' = r
  /\ scrResponses' = scrResponses + 1
  /\ scrPc' = "done"

Called(f) == [scrCalls EXCEPT ![f] = @ + 1]

\* an outer catch that answers as blockedResponse does, with the name
\* "Product" when the URL yields none
CaughtAsBlocked ==
  /\ scrError' = TRUE
  /\ Respond(blockedResponse(scrUrl, scrWebsite))

\* an error reaches the outer catch
Caught ==
  /\ scrError' = TRUE
  /\ Respond(CatchResponse(scrUrl, scrWebsite))

\* toINR rejects: fromCurrency.toUpperCase is not a function
ConversionThrows(amount, currency) == currency = NotAString /\ ~NoAmount(amount)

\* (extracted.description || []).slice is not a function
ResponseThrows(extracted) == extracted.description = NotAString

\* a step 4 that gives the request up when the price did not convert
FatalConversion(extracted, numericPrice, priceINR, currency) ==
  IF priceINR = NullNum \/ ConversionThrows(numericPrice, currency)
       \/ ResponseThrows(extracted)
  THEN Caught
  ELSE /\ Respond(DoneResponse(extracted, priceINR, currency, scrUrl, scrWebsite))
       /\ UNCHANGED scrError

\* lines 390 to 404, once getINRRate has settled
AfterConversion(extracted, numericPrice, priceINR, currency) ==
  IF ConversionThrows(numericPrice, currency) \/ ResponseThrows(extracted)
  THEN Caught
  ELSE /\ Respond(DoneResponse(extracted, priceINR, currency, scrUrl, scrWebsite))
       /\ UNCHANGED scrError

\* line 302 to the first await
ScrapeReceive(u) ==
  /\ scrPc = "idle"
  /\ scrUrl' = u
  /\ UNCHANGED <<IS_CLOUD, scrHtml, scrFetchFailed, scrCleaned, scrModel,
                 scrExtracted, scrNumericPrice, scrCurrency, scrError,
                 rateVars, toinrVars>>
  /\ IF Falsy(u)
     THEN /\ Respond(BadRequest)
          /\ UNCHANGED <<scrWebsite, scrCalls>>
     ELSE /\ scrWebsite' = getWebsiteName(u)
          /\ scrPc' = IF IS_CLOUD THEN "fetching" ELSE "rendering"
          /\ scrCalls' = Called(IF IS_CLOUD THEN "static" ELSE "render")
          /\ UNCHANGED <<scrResponse, scrResponses>>

\* from the check of line 354 to the first model call of step 3
AfterFetch(failed, h) ==
  /\ scrFetchFailed' = failed
  /\ scrHtml' = h
  /\ IF Inaccessible(failed, h)
     THEN /\ Respond(blockedResponse(scrUrl, scrWebsite))
          /\ UNCHANGED <<scrCleaned, scrModel, scrError, scrCalls>>
     ELSE IF h = NotAString
     THEN \* html.replace is not a function
          /\ Caught
          /\ scrCalls' = Called("clean")
          /\ UNCHANGED <<scrCleaned, scrModel>>
     ELSE LET cleanedText == cleanHTML(h)
          IN /\ scrCleaned' = cleanedText
             /\ UNCHANGED scrError
             /\ IF BotCheck(cleanedText)
                THEN /\ Respond(blockedResponse(scrUrl, scrWebsite))
                     /\ scrCalls' = Called("clean")
                     /\ UNCHANGED scrModel
                ELSE /\ scrPc' = "extracting"
                     /\ scrModel' = 1
                     /\ scrCalls' = [scrCalls EXCEPT !["clean"] = @ + 1,
                                                     !["model"] = @ + 1]
                     /\ UNCHANGED <<scrResponse, scrResponses>>
  /\ UNCHANGED <<IS_CLOUD, scrUrl, scrWebsite, scrExtracted, scrNumericPrice,
                 scrCurrency, rateVars, toinrVars>>

\* a handler that runs the static fetch whatever the rendered fetch gave
AlwaysStatic(h) == TRUE

\* if (!html): html is undefined after a failed rendered fetch, and falsy
\* too when the rendered page is the empty string
NeedsStatic(h) == Falsy(h)

\* fetchRenderedHTML settles
RenderSettles(outcome) ==
  /\ scrPc = "rendering"
  /\ IF ~NeedsStatic(outcome.page)
     THEN AfterFetch(FALSE, outcome.page)
     ELSE /\ scrHtml' = outcome.page
          /\ scrPc' = "fetching"
          /\ scrCalls' = Called("static")
          /\ UNCHANGED <<IS_CLOUD, scrUrl, scrWebsite, scrFetchFailed,
                         scrCleaned, scrModel, scrExtracted, scrNumericPrice,
                         scrCurrency, scrError, scrResponse, scrResponses,
                         rateVars, toinrVars>>

\* fetchWithAxios settles
StaticSettles(outcome) ==
  /\ scrPc = "fetching"
  /\ IF outcome.ok THEN AfterFetch(FALSE, outcome.page)
     ELSE AfterFetch(TRUE, scrHtml)

\* generateContent of the current model fails, or its text holds no JSON
ModelFails ==
  /\ scrPc = "extracting"
  /\ UNCHANGED <<IS_CLOUD, scrUrl, scrWebsite, scrHtml, scrFetchFailed,
                 scrCleaned, scrExtracted, scrNumericPrice, scrCurrency,
                 scrError, rateVars, toinrVars>>
  /\ IF scrModel < Len(GEMINI_MODELS)
     THEN /\ scrModel' = scrModel + 1
          /\ scrCalls' = Called("model")
          /\ UNCHANGED <<scrPc, scrResponse, scrResponses>>
     ELSE /\ Respond(blockedResponse(scrUrl, scrWebsite))
          /\ UNCHANGED <<scrModel, scrCalls>>

\* the current model answers with JSON: lines 372 to 390, and on to the
\* response when toINR needs no refresh
ModelAnswers(extracted) ==
  /\ scrPc = "extracting"
  /\ scrExtracted' = extracted
  /\ scrCalls' =
       IF extracted.name # NotAString /\ ~isUnknown(extracted.name)
          /\ extracted.priceText # NotAString
       THEN [scrCalls EXCEPT !["validate"] = @ + 1, !["convert"] = @ + 1]
       ELSE Called("validate")
  /\ IF extracted.name = NotAString
     THEN \* extracted.name.toLowerCase is not a function
          /\ Caught
          /\ UNCHANGED <<scrNumericPrice, scrCurrency, rateVars, toinrVars>>
     ELSE IF isUnknown(extracted.name)
     THEN /\ Respond(blockedResponse(scrUrl, scrWebsite))
          /\ UNCHANGED <<scrNumericPrice, scrCurrency, scrError, rateVars, toinrVars>>
     ELSE IF extracted.priceText = NotAString
     THEN \* str.replace is not a function
          /\ Caught
          /\ UNCHANGED <<scrNumericPrice, scrCurrency, rateVars, toinrVars>>
     ELSE LET numericPrice == parseNumericPrice(extracted.priceText)
              currency == CurrencyOf(extracted)
          IN /\ scrNumericPrice' = numericPrice
             /\ scrCurrency' = currency
             /\ ToINRBegin(numericPrice, currency)
             /\ IF toinrPc' = "done"
                THEN AfterConversion(extracted, numericPrice, toinrResult', currency)
                ELSE /\ scrPc' = "converting"
                     /\ UNCHANGED <<scrResponse, scrResponses, scrError>>
  /\ UNCHANGED <<IS_CLOUD, scrUrl, scrWebsite, scrHtml, scrFetchFailed,
                 scrCleaned, scrModel>>

\* the refresh of the rates settles: toINR returns and the response goes out
RefreshSettles(outcome) ==
  /\ scrPc = "converting"
  /\ ToINRSettle(outcome)
  /\ AfterConversion(scrExtracted, scrNumericPrice, toinrResult', scrCurrency)
  /\ UNCHANGED <<IS_CLOUD, scrUrl, scrWebsite, scrHtml, scrFetchFailed,
                 scrCleaned, scrModel, scrExtracted, scrNumericPrice,
                 scrCurrency, scrCalls>>

ScrapeRequest == \E u \in ScrapeUrls : ScrapeReceive(u)
Rendered == scrPc = "rendering" /\ \E outcome \in RenderOutcomes : RenderSettles(outcome)
Fetched == scrPc = "fetching" /\ \E outcome \in StaticOutcomes : StaticSettles(outcome)
ModelAnswered == \E extracted \in Extractions : ModelAnswers(extracted)
RatesRefreshed == \E outcome \in RefreshOutcomes : RefreshSettles(outcome)

\* ------------------------------------------------------------------------
\* POST /search: the responses
\* ------------------------------------------------------------------------
\* half of a surrogate pair on its own, as JSON.parse accepts it in a string
LoneSurrogate == "SURROGATE"

URIError == <<"URIError">>

\* the characters encodeURIComponent leaves alone
Unreserved == LetterSet \cup DigitSet \cup {"-", "_", ".", "!", "~", "*", "'", "(", ")"}

\* the UTF-8 bytes of the other characters a product name is made of here
PercentCode(c) ==
  IF c = " " THEN <<"%","2","0">>
  ELSE IF c = "&" THEN <<"%","2","6">>
  ELSE IF c = "/" THEN <<"%","2","F">>
  ELSE IF c = "," THEN <<"%","2","C">>
  ELSE IF c = Rupee THEN <<"%","E","2","%","8","2","%","B","9">>
  ELSE <<"%","3","F">>

\* encodeURIComponent: URIError for a string with a lone surrogate
encodeURIComponent(str) ==
  IF LoneSurrogate \in Range(str) THEN URIError
  ELSE Concat([i \in DOMAIN str |->
                 IF str[i] \in Unreserved THEN <<str[i]>> ELSE PercentCode(str[i])])

PlaceholderKey == "your_serpapi_key_here"

\* serpApiKey && serpApiKey !== 'your_serpapi_key_here'
KeyConfigured(serpApiKey) == serpApiKey # "" /\ serpApiKey # PlaceholderKey

MaxProducts == 3

retailers ==
  << [name |-> <<"A","m","a","z","o","n"," ","I","n","d","i","a">>, domain |-> <<"a","m","a","z","o","n",".","i","n">>, searchPath |-> <<"s","?","k","=">>],
     [name |-> <<"F","l","i","p","k","a","r","t">>, domain |-> <<"f","l","i","p","k","a","r","t",".","c","o","m">>, searchPath |-> <<"s","e","a","r","c","h","?","q","=">>],
     [name |-> <<"M","y","n","t","r","a">>, domain |-> <<"m","y","n","t","r","a",".","c","o","m">>, searchPath |-> <<"s","e","a","r","c","h","?","r","a","w","Q","u","e","r","y","=">>] >>

CheckWebsite == <<"C","h","e","c","k"," ","w","e","b","s","i","t","e">>

\* one entry of the static list; encoded is encodeURIComponent(productName)
RetailerProduct(retailer, productName, encoded) ==
  [name |-> productName,
   price |-> NullNum,
   priceText |-> CheckWebsite,
   description |-> <<<<"Search results from", retailer.name>>,
                     <<"Click the link to view current pricing">>,
                     <<"Prices may vary by seller">>>>,
   image |-> <<>>,
   url |-> HttpsPrefix \o <<"w","w","w",".">> \o retailer.domain \o <<"/">>
             \o retailer.searchPath \o encoded,
   websiteName |-> retailer.name]

\* the response of lines 486 to 506
FallbackResponse(productName) ==
  [status |-> 200,
   products |-> [i \in DOMAIN retailers |->
                   RetailerProduct(retailers[i], productName,
                                   encodeURIComponent(productName))],
   fallback |-> TRUE]

\* the object a result's callback returns
SearchProduct(item, priceINR, productName) ==
  LET productUrl == IF ~Falsy(item.link) THEN item.link
                    ELSE IF ~Falsy(item.product_link) THEN item.product_link
                    ELSE <<"#">>
  IN [name |-> IF Falsy(item.title) THEN productName ELSE item.title,
      price |-> priceINR,
      priceText |-> IF Truthy(priceINR) THEN <<Rupee>> \o toLocaleString(priceINR)
                    ELSE IF Falsy(item.price) THEN NotAvailable ELSE item.price,
      originalPrice |-> item.price,
      description |->
        SelectSeq(<< IF Falsy(item.source) THEN Null ELSE <<"Sold by", item.source>>,
                     IF Falsy(item.rating) THEN Null
                     ELSE <<"Rating", item.rating,
                            IF Falsy(item.reviews) THEN <<"0">> ELSE item.reviews>>,
                     IF Falsy(item.delivery) THEN <<"Check website for delivery info">>
                     ELSE <<"Delivery", item.delivery>> >>,
                  LAMBDA d : d # Null),
      image |-> IF Falsy(item.thumbnail) THEN <<>> ELSE item.thumbnail,
      url |-> productUrl,
      websiteName |-> IF Falsy(item.source) THEN getWebsiteName(productUrl)
                      ELSE item.source]

ProductRequired == [status |-> 400, error |-> "Product name is required"]

\* ------------------------------------------------------------------------
\* POST /search: one request, from its arrival to its response
\* ------------------------------------------------------------------------
\* one of shopping_results
Item(title, price, source, link) ==
  [title |-> title, price |-> price, source |-> source, link |-> link,
   product_link |-> Null, rating |-> Null, reviews |-> Null,
   delivery |-> Null, thumbnail |-> Null, currency |-> Null]

Flipkart == retailers[2].name
ShopLink == ExampleUrl

RupeeItem == Item(Widget, RupeePrice, Flipkart, ShopLink)
DollarItem == Item(Null, DollarPrice, Null, Null)
UnpricedItem == Item(Widget, Null, Null, ShopLink)
NumberPricedItem == Item(Widget, NotAString, Flipkart, ShopLink)
\* a result that names its currency next to a price without a symbol
TaggedItem == [Item(Widget, PlainPrice, Flipkart, ShopLink) EXCEPT !.currency = INR]

\* searchResponse.data.shopping_results: a list, absent, or not a list
ResultLists ==
  { <<>>, <<RupeeItem>>, <<RupeeItem, DollarItem>>,
    <<DollarItem, RupeeItem, UnpricedItem>>,
    <<RupeeItem, UnpricedItem, DollarItem, RupeeItem>>,
    <<NumberPricedItem>>, <<DollarItem, NumberPricedItem>>,
    <<TaggedItem>>, <<RupeeItem, TaggedItem>> }

SearchOutcomes ==
  {[kind |-> "failed", results |-> <<>>], [kind |-> "absent", results |-> <<>>],
   [kind |-> "object", results |-> <<>>]}
    \cup {[kind |-> "list", results |-> r] : r \in ResultLists}

\* productName of the body: absent, plain, with spaces, with a lone surrogate
MalformedName == <<"T","V",LoneSurrogate>>
ProductNames == { Null, Widget, AmazingWirelessHeadphones, MalformedName }

ServiceKeys == { "", PlaceholderKey, "0123456789abcdef" }

SearchInit ==
  /\ SERPAPI_KEY \in ServiceKeys
  /\ srchPc = "idle"
  /\ srchName = Null
  /\ srchItems = <<>>
  /\ srchConv = <<>>
  /\ srchStatic = FALSE
  /\ srchResponse = NoResponse
  /\ srchResponses = 0

\* no /search request is under way
SearchIdle ==
  /\ SERPAPI_KEY = ""
  /\ srchPc = "off"
  /\ srchName = Null
  /\ srchItems = <<>>
  /\ srchConv = <<>>
  /\ srchStatic = FALSE
  /\ srchResponse = NoResponse
  /\ srchResponses = 0

SearchRespond(r) ==
  /\ srchResponse' = r
  /\ srchResponses' = srchResponses + 1
  /\ srchPc' = "done"

\* lines 486 to 506, which no try encloses: encodeURIComponent throws out of
\* the handler, and nothing is sent
StaticPath(productName) ==
  /\ srchStatic' = TRUE
  /\ IF encodeURIComponent(productName) = URIError
     THEN /\ srchPc' = "rejected"
          /\ UNCHANGED <<srchResponse, srchResponses>>
     ELSE SearchRespond(FallbackResponse(productName))

\* line 430 to the first await
SearchReceive(productName) ==
  /\ srchPc = "idle"
  /\ srchName' = productName
  /\ UNCHANGED <<SERPAPI_KEY, srchItems, srchConv, rateVars>>
  /\ IF Falsy(productName)
     THEN SearchRespond(ProductRequired) /\ UNCHANGED srchStatic
     ELSE IF KeyConfigured(SERPAPI_KEY)
     THEN srchPc' = "searching" /\ UNCHANGED <<srchStatic, srchResponse, srchResponses>>
     ELSE StaticPath(productName)

\* const rate of toINR before getINRRate has returned
NoRateYet == DblFromInt(0)

\* res of line 32 in a call that has not awaited a refresh
NoRes == [ok |-> FALSE, rates |-> NoRates]

\* the callback of one result up to its first await, or to its end; refreshed
\* and res tell whether and how its getINRRate refreshed, read is the table
\* of line 48
StartConversion(item) ==
  IF item.price = NotAString
  THEN \* str.replace is not a function
       [pc |-> "threw", amount |-> NullNum, currency |-> Null, now |-> 0,
        rate |-> NoRateYet, result |-> NullNum,
        refreshed |-> FALSE, res |-> NoRes, read |-> NoRates]
  ELSE LET numericPrice == parseNumericPrice(item.price)
           currency == detectCurrency(item.price)
       IN IF NoAmount(numericPrice)
          THEN [pc |-> "done", amount |-> numericPrice, currency |-> currency,
                now |-> 0, rate |-> NoRateYet, result |-> NullNum,
                refreshed |-> FALSE, res |-> NoRes, read |-> NoRates]
          ELSE IF NeedsRefresh(exchangeRates, ratesFetchedAt, clock, currency)
          THEN [pc |-> "refreshing", amount |-> numericPrice,
                currency |-> currency, now |-> clock, rate |-> NoRateYet,
                result |-> NullNum,
                refreshed |-> FALSE, res |-> NoRes, read |-> NoRates]
          ELSE LET rate == RateToINR(exchangeRates, currency)
               IN [pc |-> "done", amount |-> numericPrice, currency |-> currency,
                   now |-> clock, rate |-> rate,
                   result |-> RoundedProduct(numericPrice, rate),
                   refreshed |-> FALSE, res |-> NoRes, read |-> exchangeRates]

\* { products } of line 478
ProductsResponse(items, conv, productName) ==
  [status |-> 200,
   products |-> [i \in DOMAIN items |->
                   SearchProduct(items[i], conv[i].result, productName)]]

\* Promise.all settles: it rejects with the first callback that threw, and
\* fulfils when every callback has returned
AllSettled ==
  IF \E i \in DOMAIN srchConv' : srchConv'[i].pc = "threw"
     THEN StaticPath(srchName)
     ELSE IF \A i \in DOMAIN srchConv' : srchConv'[i].pc = "done"
     THEN /\ SearchRespond(ProductsResponse(srchItems', srchConv', srchName))
          /\ UNCHANGED srchStatic
     ELSE /\ srchPc' = "converting"
          /\ UNCHANGED <<srchStatic, srchResponse, srchResponses>>

\* the call of the search service settles
SearchSettles(outcome) ==
  /\ srchPc = "searching"
  /\ IF outcome.kind \in {"failed", "object"}
     THEN \* the call failed, or results.slice is not a function
          /\ StaticPath(srchName)
          /\ UNCHANGED <<srchItems, srchConv>>
     ELSE /\ srchItems' = Slice(outcome.results, 1,
                                Min(MaxProducts, Len(outcome.results)))
          /\ srchConv' = [i \in DOMAIN srchItems' |-> StartConversion(srchItems'[i])]
          /\ AllSettled
  /\ UNCHANGED <<SERPAPI_KEY, srchName, rateVars>>

\* a callback that takes its rate from the table as it was before its own
\* refresh was stored
ConversionReadsStale(i, outcome) ==
  /\ srchConv[i].pc = "refreshing"
  /\ exchangeRates' = RatesAfter(outcome)
  /\ ratesFetchedAt' = FetchedAtAfter(outcome, srchConv[i].now, ratesFetchedAt)
  /\ UNCHANGED srchItems
  /\ LET rate == RateToINR(exchangeRates, srchConv[i].currency)
     IN srchConv' =
          [srchConv EXCEPT ![i] =
             [@ EXCEPT !.pc = "done", !.rate = rate,
                       !.result = RoundedProduct(srchConv[i].amount, rate),
                       !.refreshed = TRUE, !.res = outcome,
                       !.read = exchangeRates]]
  /\ IF srchPc = "converting"
     THEN AllSettled
     ELSE UNCHANGED <<srchPc, srchStatic, srchResponse, srchResponses>>
  /\ UNCHANGED <<clock, SERPAPI_KEY, srchName>>

\* the refresh of the rates that the callback of result i awaits settles
ConversionSettles(i, outcome) ==
  /\ srchConv[i].pc = "refreshing"
  /\ exchangeRates' = RatesAfter(outcome)
  /\ ratesFetchedAt' = FetchedAtAfter(outcome, srchConv[i].now, ratesFetchedAt)
  /\ UNCHANGED srchItems
  /\ LET rate == RateToINR(exchangeRates', srchConv[i].currency)
     IN srchConv' =
          [srchConv EXCEPT ![i] =
             [@ EXCEPT !.pc = "done", !.rate = rate,
                       !.result = RoundedProduct(srchConv[i].amount, rate),
                       !.refreshed = TRUE, !.res = outcome,
                       !.read = exchangeRates']]
  /\ IF srchPc = "converting"
     THEN AllSettled
     ELSE \* the response went out when another callback threw
          UNCHANGED <<srchPc, srchStatic, srchResponse, srchResponses>>
  /\ UNCHANGED <<clock, SERPAPI_KEY, srchName>>

SearchRequest == \E productName \in ProductNames : SearchReceive(productName)
SearchSettled ==
  srchPc = "searching" /\ \E outcome \in SearchOutcomes : SearchSettles(outcome)
ConversionSettled ==
  \E i \in DOMAIN srchConv, outcome \in RefreshOutcomes : ConversionSettles(i, outcome)

\* ------------------------------------------------------------------------
\* fetchRenderedHTML: one browser per call
\* ------------------------------------------------------------------------
MaxFetches == 4

\* the awaits of the try block after puppeteer.launch, in order
PageSteps ==
  <<"newPage", "setUserAgent", "setExtraHTTPHeaders", "evaluateOnNewDocument",
    "setRequestInterception", "goto", "setTimeout", "clickCookies",
    "clickLocation", "content">>

\* try { await page.click(...) } catch { }
Swallowed == {"clickCookies", "clickLocation"}
\* new Promise(r => setTimeout(r, 3000)) has no way to reject
CannotFail == {"setTimeout"}

StepOutcomes == {"ok", "error"}

\* a finally block that closes nothing
NeverCloses(browser) == TRUE

\* if (browser): nothing to close when the launch did not succeed
SkipsClose(browser) == browser = "undefined"

BrowserInit ==
  /\ brPc = "idle"
  /\ brBrowser = "undefined"
  /\ brOpen = 0
  /\ brOutcome = "none"
  /\ brHtml = Null
  /\ brCalls = 0

\* no call of fetchRenderedHTML is under way
BrowserIdle ==
  /\ brPc = "off"
  /\ brBrowser = "undefined"
  /\ brOpen = 0
  /\ brOutcome = "none"
  /\ brHtml = Null
  /\ brCalls = 0

\* the call settles, as the try block left it
FetchSettles(outcome, html) ==
  /\ brPc' = "settled"
  /\ brOutcome' = outcome
  /\ brHtml' = html

\* the finally block: browser.close() is awaited when browser is set
Finally(outcome, html) ==
  IF SkipsClose(brBrowser')
  THEN FetchSettles(outcome, html)
  ELSE /\ brPc' = "closing"
       /\ brOutcome' = outcome
       /\ brHtml' = html

\* fetchRenderedHTML(url) up to await puppeteer.launch
FetchBegin ==
  /\ brPc \in {"idle", "settled"}
  /\ brCalls < MaxFetches
  /\ brCalls' = brCalls + 1
  /\ brPc' = "launch"
  /\ brBrowser' = "undefined"
  /\ brOutcome' = "none"
  /\ brHtml' = Null
  /\ UNCHANGED brOpen

\* puppeteer.launch settles
LaunchSettles(outcome) ==
  /\ brPc = "launch"
  /\ UNCHANGED brCalls
  /\ IF outcome = "ok"
     THEN /\ brBrowser' = "open"
          /\ brOpen' = brOpen + 1
          /\ brPc' = PageSteps[1]
          /\ UNCHANGED <<brOutcome, brHtml>>
     ELSE /\ UNCHANGED <<brBrowser, brOpen>>
          /\ Finally("launch", Null)

\* one await of the page settles
StepSettles(outcome, html) ==
  /\ brPc \in Range(PageSteps)
  /\ UNCHANGED <<brBrowser, brOpen, brCalls>>
  /\ LET step == CHOOSE i \in DOMAIN PageSteps : PageSteps[i] = brPc
     IN IF outcome = "error" /\ brPc \notin Swallowed \cup CannotFail
        THEN Finally(brPc, Null)
        ELSE IF step = Len(PageSteps)
        THEN Finally("returned", html)
        ELSE /\ brPc' = PageSteps[step + 1]
             /\ UNCHANGED <<brOutcome, brHtml>>

\* browser.close() settles
BrowserCloses ==
  /\ brPc = "closing"
  /\ brBrowser' = "closed"
  /\ brOpen' = brOpen - 1
  /\ brPc' = "settled"
  /\ UNCHANGED <<brOutcome, brHtml, brCalls>>

Launched == \E outcome \in StepOutcomes : LaunchSettles(outcome)
Stepped ==
  \E outcome \in StepOutcomes, html \in {<<>>, Widget} : StepSettles(outcome, html)

\* ------------------------------------------------------------------------
\* app.js: renderComparison
\* ------------------------------------------------------------------------
\* the price of an entry that carries none
Undefined == <<"undefined", 0, 0>>

\* p !== null && p !== undefined && !isNaN(p)
Priced(p) == p # NullNum /\ p # Undefined /\ p # NaN

\* Math.min(...prices) and Math.max(...prices); the prices of the server are
\* whole numbers
MathMin(prices) ==
  CHOOSE p \in Range(prices) : \A q \in Range(prices) : p[2] <= q[2]
MathMax(prices) ==
  CHOOSE p \in Range(prices) : \A q \in Range(prices) : p[2] >= q[2]

\* a test that marks the lowest price only when one entry alone has it
UniqueLowest(product, minPrice, prices) ==
  /\ minPrice # NullNum
  /\ product.price = minPrice
  /\ Len(SelectSeq(prices, LAMBDA p : p = minPrice)) = 1

\* const isLowest and const isHighest of the forEach callback
isLowest(product, minPrice, prices) ==
  /\ minPrice # NullNum
  /\ product.price = minPrice
  /\ Len(SelectSeq(prices, LAMBDA p : p = minPrice)) >= 1

isHighest(product, minPrice, maxPrice) ==
  /\ maxPrice # NullNum
  /\ product.price = maxPrice
  /\ minPrice # maxPrice

\* the card of one entry: its classes, its badge and the class of its price
buildProductCard(product, lowest, highest, index) ==
  [className |-> {"product-card"}
                   \cup (IF lowest THEN {"price-lowest"}
                         ELSE IF highest THEN {"price-highest"} ELSE {}),
   badge |-> IF lowest THEN "Best Price"
             ELSE IF highest THEN "Highest" ELSE "",
   priceClass |-> IF Priced(product.price) THEN "card-price" ELSE "card-price-na",
   index |-> index]

NoResultsNote == "No comparison results found."
EmptyGrid == [innerHTML |-> "", cards |-> <<>>]

\* the grid after renderComparison(products, sourceProduct), for the list
\* that an answer of /search carries
renderComparison(products) ==
  IF products = <<>>
  THEN [innerHTML |-> NoResultsNote, cards |-> <<>>]
  ELSE LET prices == SelectSeq([i \in DOMAIN products |-> products[i].price], Priced)
           minPrice == IF prices # <<>> THEN MathMin(prices) ELSE NullNum
           maxPrice == IF prices # <<>> THEN MathMax(prices) ELSE NullNum
       IN [innerHTML |-> "",
           cards |-> [i \in DOMAIN products |->
                        buildProductCard(products[i],
                                         isLowest(products[i], minPrice, prices),
                                         isHighest(products[i], minPrice, maxPrice),
                                         i - 1)]]

\* the longest list of entries under test
MaxEntries == 3

\* the prices the entries carry
GridPrices == { NullNum, Undefined, Num(0, 0), Num(1999, 0), Num(2125, 0) }

Entry(price) == [price |-> price, priceText |-> Null]

EntryLists ==
  UNION { [1..n -> {Entry(price) : price \in GridPrices}] : n \in 0..MaxEntries }

RenderInit ==
  /\ gridProducts \in EntryLists
  /\ comparisonGrid = EmptyGrid
  /\ gridRendered = FALSE

\* nothing has been rendered
GridIdle ==
  /\ gridProducts = <<>>
  /\ comparisonGrid = EmptyGrid
  /\ gridRendered = FALSE

RenderCall ==
  /\ ~gridRendered
  /\ comparisonGrid' = renderComparison(gridProducts)
  /\ gridRendered' = TRUE
  /\ UNCHANGED gridProducts

\* ------------------------------------------------------------------------
\* app.js: startComparison
\* ------------------------------------------------------------------------
Sections == {"loading", "error", "blocked", "source", "comparison"}

\* isValidUrl: new URL(str) parses and the protocol is http: or https:
isValidUrl(str) == UrlParses(str)

\* productUrlInput.value
InputValues ==
  { <<>>, <<" "," ">>, <<"e","x","a","m","p","l","e",".","c","o","m">>,
    <<" ">> \o ExampleUrl \o <<" ">>, HomeUrl }

InvalidUrlMessage == "Please enter a valid URL starting with http:// or https://"
SomethingWentWrong == "Something went wrong. Please try again."
NoMessage == ""

\* hideAll
hideAll(hidden) == Sections

\* showError: hideAll, then show(errorSection)
ErrorShown(hidden) == hideAll(hidden) \ {"error"}

\* the end of the normal flow: hide(loadingSection), show(sourceSection),
\* show(comparisonSection)
SourceShown(hidden) == (hidden \cup {"loading"}) \ {"source", "comparison"}

\* an end of the blocked flow that leaves the banner hidden
BannerLeftHidden(hidden) == (hidden \cup {"loading"}) \ {"comparison"}

\* the end of the blocked flow: hide(loadingSection), show(blockedSection),
\* show(comparisonSection)
BlockedShown(hidden) == (hidden \cup {"loading"}) \ {"blocked", "comparison"}

\* a fetch that rejects, or whose body is not JSON
NetworkError == [status |-> 0, error |-> "Failed to fetch"]

\* what /scrape can answer to the url sent
ScrapeAnswers(url) ==
  { NetworkError, InternalError,
    blockedResponse(url, getWebsiteName(url)),
    CatchResponse(url, getWebsiteName(url)),
    DoneResponse(Extraction(Widget, RupeePrice, INR, ThreeFeatures, <<>>),
                 Num(1999, 0), INR, url, getWebsiteName(url)) }

\* what /search can answer to the name sent
SearchAnswers(productName) ==
  { NetworkError, FallbackResponse(productName),
    [status |-> 200, products |-> <<>>],
    [status |-> 200, products |->
       <<SearchProduct(RupeeItem, Num(1999, 0), productName)>>] }

\* if (!res.ok) throw new Error(data.error || ...)
Ok(res) == res.status \in 200..299

\* scrapeData.searchQuery || scrapeData.name
QueryOf(scrapeData) ==
  IF Falsy(scrapeData.searchQuery) THEN scrapeData.name ELSE scrapeData.searchQuery

\* showBlockedBanner: data.blockerMessage || a text of its own
BannerOf(data) == data.blockerMessage

\* fetch(`${API_BASE}${path}`, { method: 'POST', body })
Fetch(path, body) == [path |-> path, body |-> body]

\* no key was pressed and the button was not activated
NoEvent == [event |-> "none", key |-> "", valid |-> FALSE, loading |-> FALSE, tick |-> 0]

UiInit ==
  /\ isLoading = FALSE
  /\ uiPc = "idle"
  /\ uiUrl = Null
  /\ uiHidden \in SUBSET Sections
  /\ uiDisabled = FALSE
  /\ uiScrape = NoResponse
  /\ uiSearch = NoResponse
  /\ uiBanner = Null
  /\ uiMessage = NoMessage
  /\ uiInFlight = <<>>
  /\ uiLast = NoEvent

\* no page is open
UiIdle ==
  /\ isLoading = FALSE
  /\ uiPc = "off"
  /\ uiUrl = Null
  /\ uiHidden = Sections
  /\ uiDisabled = FALSE
  /\ uiScrape = NoResponse
  /\ uiSearch = NoResponse
  /\ uiBanner = Null
  /\ uiMessage = NoMessage
  /\ uiInFlight = <<>>
  /\ uiLast = NoEvent

\* catch (err) and finally of startComparison
UiFails(message) ==
  /\ uiHidden' = ErrorShown(uiHidden \cup {"loading"})
  /\ uiMessage' = message
  /\ isLoading' = FALSE
  /\ uiDisabled' = FALSE
  /\ uiPc' = "ended"
  /\ UNCHANGED uiUrl

\* a return of startComparison before its try: a run that stands at an
\* await stays there
ReturnedEarly(url) ==
  /\ UNCHANGED uiInFlight
  /\ IF uiPc \in {"scraping", "searching"}
     THEN UNCHANGED <<uiPc, uiUrl, uiScrape, uiSearch>>
     ELSE /\ uiPc' = "ended"
          /\ uiUrl' = url
          /\ uiScrape' = NoResponse
          /\ uiSearch' = NoResponse

\* a guard that lets every call through
NeverLoading == FALSE

\* if (isLoading) return
AlreadyLoading == isLoading

\* startComparison up to await scrapeProduct(url)
startComparison(value) ==
  /\ uiPc # "off"
  /\ UNCHANGED uiBanner
  /\ LET url == trim(value)
     IN IF url = <<>>
        THEN \* shakeInput
             /\ ReturnedEarly(url)
             /\ UNCHANGED <<isLoading, uiHidden, uiDisabled, uiMessage>>
        ELSE IF ~isValidUrl(url)
        THEN /\ uiHidden' = ErrorShown(uiHidden)
             /\ uiMessage' = InvalidUrlMessage
             /\ ReturnedEarly(url)
             /\ UNCHANGED <<isLoading, uiDisabled>>
        ELSE IF AlreadyLoading
        THEN /\ ReturnedEarly(url)
             /\ UNCHANGED <<isLoading, uiHidden, uiDisabled, uiMessage>>
        ELSE /\ isLoading' = TRUE
             /\ uiHidden' = hideAll(uiHidden) \ {"loading"}
             /\ uiDisabled' = TRUE
             /\ uiPc' = "scraping"
             /\ uiUrl' = url
             /\ uiScrape' = NoResponse
             /\ uiSearch' = NoResponse
             /\ uiInFlight' = Append(uiInFlight, Fetch("/scrape", url))
             /\ UNCHANGED uiMessage

\* scrapeProduct settles, and startComparison runs on to await searchProducts
ScrapeArrives(res) ==
  /\ uiPc = "scraping"
  /\ UNCHANGED <<uiSearch, uiLast>>
  /\ IF ~Ok(res)
     THEN /\ UiFails(res.error)
          /\ uiInFlight' = Tail(uiInFlight)
          /\ UNCHANGED <<uiScrape, uiBanner>>
     ELSE /\ uiScrape' = res
          /\ uiInFlight' = Append(Tail(uiInFlight), Fetch("/search", QueryOf(res)))
          /\ uiBanner' = IF res.blocked THEN BannerOf(res) ELSE uiBanner
          /\ uiPc' = "searching"
          /\ UNCHANGED <<isLoading, uiUrl, uiHidden, uiDisabled, uiMessage>>

\* searchProducts settles, sleep runs out, and startComparison runs to its end
SearchArrives(res) ==
  /\ uiPc = "searching"
  /\ uiInFlight' = Tail(uiInFlight)
  /\ UNCHANGED <<uiScrape, uiBanner, uiLast>>
  /\ IF ~Ok(res)
     THEN /\ UiFails(res.error)
          /\ UNCHANGED <<uiSearch, gridVars>>
     ELSE /\ uiSearch' = res
          /\ gridProducts' = res.products
          /\ comparisonGrid' = renderComparison(res.products)
          /\ gridRendered' = TRUE
          /\ uiHidden' = IF uiScrape.blocked THEN BlockedShown(uiHidden)
                                             ELSE SourceShown(uiHidden)
          /\ isLoading' = FALSE
          /\ uiDisabled' = FALSE
          /\ uiPc' = "ended"
          /\ UNCHANGED <<uiUrl, uiMessage>>

Compare ==
  /\ uiPc \in {"idle", "ended"}
  /\ \E value \in InputValues : startComparison(value)
  /\ UNCHANGED uiLast
Scraped ==
  uiPc = "scraping" /\ \E res \in ScrapeAnswers(uiUrl) : ScrapeArrives(res)
Searched ==
  uiPc = "searching" /\ \E res \in SearchAnswers(QueryOf(uiScrape)) : SearchArrives(res)

\* e.key of a keydown on the input
Keys == {"Enter", "a"}

\* the keydown listener of productUrlInput
KeyDown(key, value) ==
  /\ uiPc # "off"
  /\ uiLast' = [event |-> "keydown", key |-> key, valid |-> isValidUrl(trim(value)),
                loading |-> isLoading, tick |-> 1 - uiLast.tick]
  /\ IF key = "Enter" /\ ~isLoading
     THEN startComparison(value)
     ELSE UNCHANGED <<isLoading, uiPc, uiUrl, uiHidden, uiDisabled, uiScrape,
                      uiSearch, uiBanner, uiMessage, uiInFlight>>

\* an activation of the compare button, delivered to startComparison whether
\* or not the button is disabled
Activate(value) ==
  /\ uiPc # "off"
  /\ uiLast' = [event |-> "click", key |-> "", valid |-> isValidUrl(trim(value)),
                loading |-> isLoading, tick |-> 1 - uiLast.tick]
  /\ startComparison(value)

Pressed == \E key \in Keys, value \in InputValues : KeyDown(key, value)
Activated == \E value \in InputValues : Activate(value)

\* ------------------------------------------------------------------------
\* getINRRate: concurrent calls on the one cache
\* ------------------------------------------------------------------------
MaxCalls == 2
\* the clock moves in steps of this many minutes, at most MaxTicks times
TickMinutes == 16
MaxTicks == 2

RateCodes == { USD, <<"u","s","d">>, INR, <<"A","E","D">> }

\* the cache as earlier calls can have left it
RateSnapshots ==
  { <<NoRates, 0>>, <<FallbackRates, 0>>, <<SparseRates, NowMinute>>,
    <<LiveRates, NowMinute>>, <<LiveRates, NowMinute - RateTtlMinutes>> }

NoCall ==
  [pc |-> "idle", code |-> Null, now |-> 0, after |-> "none",
   refreshed |-> FALSE, entry |-> <<0, 0>>, source |-> "none",
   fetchedAt |-> 0]

\* where the returned rate comes from: the constant of INR, the default,
\* the fallback table of the catch, or rates that the service sent
SourceOf(rates, fromCurrency) ==
  LET upper == toUpperCase(fromCurrency)
  IN IF upper = INR THEN "inr"
     ELSE IF NoRate(rates, upper) THEN "default"
     ELSE IF rates = FallbackRates THEN "fallback"
     ELSE "live"

\* exchangeRates[upper] as the call reads it on line 48, <<0, 0>> when there
\* is none
EntryOf(rates, fromCurrency) ==
  LET upper == toUpperCase(fromCurrency)
  IN IF NoRate(rates, upper) THEN <<0, 0>> ELSE rates[upper]

\* what a returned call has returned, from the entry it read
ReturnedRate(call) ==
  RateToINR([code \in {toUpperCase(call.code)} |-> call.entry], call.code)

\* lines 46 to 49: the call returns with the cache as it is
Returned(call, rates, fetchedAt) ==
  [call EXCEPT !.pc = "returned",
               !.entry = EntryOf(rates, call.code),
               !.source = SourceOf(rates, call.code),
               !.fetchedAt = fetchedAt]

RateInit ==
  /\ rateCalls = [c \in 1..MaxCalls |-> NoCall]
  /\ lastRefresh = "none"

\* getINRRate is not under test
RateIdle ==
  /\ rateCalls = <<>>
  /\ lastRefresh = "none"

\* getINRRate(fromCurrency) up to its return or to the await of axios.get
getINRRate(c, fromCurrency) ==
  /\ rateCalls[c].pc \in {"idle", "returned"}
  /\ UNCHANGED <<rateVars, lastRefresh>>
  /\ LET call == [NoCall EXCEPT !.code = fromCurrency, !.now = clock,
                                !.after = lastRefresh]
     IN rateCalls' =
          [rateCalls EXCEPT ![c] =
             IF NeedsRefresh(exchangeRates, ratesFetchedAt, clock, fromCurrency)
             THEN [call EXCEPT !.pc = "refreshing", !.refreshed = TRUE]
             ELSE Returned(call, exchangeRates, ratesFetchedAt)]

\* axios.get settles: try or catch, then lines 46 to 49
RateSettles(c, outcome) ==
  /\ rateCalls[c].pc = "refreshing"
  /\ exchangeRates' = RatesAfter(outcome)
  /\ ratesFetchedAt' = FetchedAtAfter(outcome, rateCalls[c].now, ratesFetchedAt)
  /\ lastRefresh' = IF outcome.ok THEN "ok" ELSE "failed"
  /\ rateCalls' = [rateCalls EXCEPT ![c] =
                     Returned(@, exchangeRates', ratesFetchedAt')]
  /\ UNCHANGED clock

\* time passes
Tick ==
  /\ clock < NowMinute + MaxTicks * TickMinutes
  /\ clock' = clock + TickMinutes
  /\ UNCHANGED <<exchangeRates, ratesFetchedAt, callVars>>

RateCalled == \E c \in 1..MaxCalls, fromCurrency \in RateCodes : getINRRate(c, fromCurrency)
RateSettled == \E c \in 1..MaxCalls, outcome \in RefreshOutcomes : RateSettles(c, outcome)

\* ------------------------------------------------------------------------
\* extractWithGemini: the models in their order
\* ------------------------------------------------------------------------
\* err.message of a failed attempt: the network, the API, a text without
\* JSON (line 290), JSON.parse
ModelErrors ==
  { "fetch failed", "429 Too Many Requests", "No JSON in response",
    "Unexpected token" }

\* what JSON.parse returns for an answer that parses
ModelResults ==
  { Extraction(Widget, RupeePrice, INR, ThreeFeatures, <<>>),
    Extraction(UnknownProduct, Null, Null, Null, Null) }

\* a catch that keeps the first error
KeepsFirst(previous, err) == IF previous = "undefined" THEN err ELSE previous

\* catch (err) { lastError = err }
CaughtError(previous, err) == err

\* the message of line 297
AllModelsFailed(message) == <<"All Gemini models failed. Last error: ", message>>

GeminiInit ==
  /\ gemPc = "idle"
  /\ gemCalled = <<>>
  /\ gemErrors = <<>>
  /\ lastError = "undefined"
  /\ gemResult = NoExtraction
  /\ gemThrown = Null

\* extractWithGemini is not under test
GeminiIdle ==
  /\ gemPc = "off"
  /\ gemCalled = <<>>
  /\ gemErrors = <<>>
  /\ lastError = "undefined"
  /\ gemResult = NoExtraction
  /\ gemThrown = Null

\* extractWithGemini up to the await of the first model
extractWithGemini ==
  /\ gemPc = "idle"
  /\ gemPc' = "calling"
  /\ gemCalled' = <<GEMINI_MODELS[1]>>
  /\ UNCHANGED <<gemErrors, lastError, gemResult, gemThrown>>

\* the model answers with text that holds JSON which parses
ModelReturns(parsed) ==
  /\ gemPc = "calling"
  /\ gemResult' = parsed
  /\ gemPc' = "returned"
  /\ UNCHANGED <<gemCalled, gemErrors, lastError, gemThrown>>

\* the attempt fails: the catch, then the next model or line 297
ModelThrows(message) ==
  /\ gemPc = "calling"
  /\ gemErrors' = Append(gemErrors, message)
  /\ lastError' = CaughtError(lastError, message)
  /\ UNCHANGED gemResult
  /\ IF Len(gemCalled) < Len(GEMINI_MODELS)
     THEN /\ gemCalled' = Append(gemCalled, GEMINI_MODELS[Len(gemCalled) + 1])
          /\ UNCHANGED <<gemPc, gemThrown>>
     ELSE /\ gemPc' = "threw"
          /\ gemThrown' = AllModelsFailed(lastError')
          /\ UNCHANGED gemCalled

ModelReturned == \E parsed \in ModelResults : ModelReturns(parsed)
ModelThrew == \E message \in ModelErrors : ModelThrows(message)

\* ========================================================================
\* Specifications
\* ========================================================================
\* extractProductNameFromUrl called on one URL
\* the cache of a process that has just started
RatesInit ==
  /\ exchangeRates = NoRates
  /\ ratesFetchedAt = 0
  /\ clock = NowMinute

SlugNext == SlugCall /\ UNCHANGED <<cleanVars, rateVars, toinrVars, scrVars, srchVars, brVars, uiVars, callVars, gemVars, gridVars>>

SlugOnly == SlugInit /\ CleanIdle /\ RatesInit /\ ToINRIdle /\ ScrapeIdle
  /\ SearchIdle
  /\ BrowserIdle
  /\ UiIdle
  /\ RateIdle
  /\ GeminiIdle
  /\ GridIdle

SlugSpec == SlugOnly /\ [][SlugNext]_vars

\* cleanHTML called on one document
CleanNext ==
  \/ CleanCall /\ UNCHANGED <<slugVars, rateVars, toinrVars, scrVars, srchVars, brVars, uiVars, callVars, gemVars, gridVars>>
  \/ CleanAgain /\ UNCHANGED <<slugVars, rateVars, toinrVars, scrVars, srchVars, brVars, uiVars, callVars, gemVars, gridVars>>

CleanOnly == CleanInit /\ SlugIdle /\ RatesInit /\ ToINRIdle /\ ScrapeIdle
  /\ SearchIdle
  /\ BrowserIdle
  /\ UiIdle
  /\ RateIdle
  /\ GeminiIdle
  /\ GridIdle

CleanSpec == CleanOnly /\ [][CleanNext]_vars

\* toINR called once
ToINRNext ==
  \/ ToINRCall /\ UNCHANGED <<slugVars, cleanVars, scrVars, srchVars, brVars, uiVars, callVars, gemVars, gridVars>>
  \/ ToINRRefreshed /\ UNCHANGED <<slugVars, cleanVars, scrVars, srchVars, brVars, uiVars, callVars, gemVars, gridVars>>

ToINROnly == RatesAmong(Snapshots) /\ ToINRReady /\ SlugIdle /\ CleanIdle /\ ScrapeIdle
  /\ SearchIdle
  /\ BrowserIdle
  /\ UiIdle
  /\ RateIdle
  /\ GeminiIdle
  /\ GridIdle

ToINRSpec == ToINROnly /\ [][ToINRNext]_vars

\* one /scrape request, the cache being in any state earlier requests can
\* have left it in
ScrapeNext ==
  \/ ScrapeRequest /\ UNCHANGED <<slugVars, cleanVars, srchVars, brVars, uiVars, callVars, gemVars, gridVars>>
  \/ Rendered /\ UNCHANGED <<slugVars, cleanVars, srchVars, brVars, uiVars, callVars, gemVars, gridVars>>
  \/ Fetched /\ UNCHANGED <<slugVars, cleanVars, srchVars, brVars, uiVars, callVars, gemVars, gridVars>>
  \/ ModelFails /\ UNCHANGED <<slugVars, cleanVars, srchVars, brVars, uiVars, callVars, gemVars, gridVars>>
  \/ ModelAnswered /\ UNCHANGED <<slugVars, cleanVars, srchVars, brVars, uiVars, callVars, gemVars, gridVars>>
  \/ RatesRefreshed /\ UNCHANGED <<slugVars, cleanVars, srchVars, brVars, uiVars, callVars, gemVars, gridVars>>

ScrapeOnly ==
  ScrapeInit /\ RatesAmong(ScrapeSnapshots) /\ ToINRReady /\ SlugIdle /\ CleanIdle
  /\ SearchIdle
  /\ BrowserIdle
  /\ UiIdle
  /\ RateIdle
  /\ GeminiIdle
  /\ GridIdle

ScrapeSpec == ScrapeOnly /\ [][ScrapeNext]_vars

\* a step of a request in flight: every awaited call settles, and no step
\* but the settling of one moves the request on
ScrapeSettles ==
  /\ scrPc \in {"rendering", "fetching", "extracting", "converting"}
  /\ \E pc \in {"fetching", "extracting", "converting", "done"},
        model \in 0..Len(GEMINI_MODELS) :
        /\ scrPc' = pc
        /\ scrModel' = model
        /\ <<pc, model>> # <<scrPc, scrModel>>

ScrapeFairSpec == ScrapeSpec /\ WF_<<scrPc, scrModel>>(ScrapeSettles)

\* one /search request
SearchNext ==
  \/ SearchRequest /\ UNCHANGED <<slugVars, cleanVars, toinrVars, scrVars, brVars, uiVars, callVars, gemVars, gridVars>>
  \/ SearchSettled /\ UNCHANGED <<slugVars, cleanVars, toinrVars, scrVars, brVars, uiVars, callVars, gemVars, gridVars>>
  \/ ConversionSettled /\ UNCHANGED <<slugVars, cleanVars, toinrVars, scrVars, brVars, uiVars, callVars, gemVars, gridVars>>

SearchOnly ==
  /\ SearchInit /\ RatesAmong(ScrapeSnapshots)
  /\ SlugIdle /\ CleanIdle /\ ToINRIdle /\ ScrapeIdle
  /\ BrowserIdle
  /\ UiIdle
  /\ RateIdle
  /\ GeminiIdle
  /\ GridIdle

SearchSpec == SearchOnly /\ [][SearchNext]_vars

\* calls of fetchRenderedHTML, one after the other
BrowserNext ==
  \/ FetchBegin /\ UNCHANGED <<slugVars, cleanVars, rateVars, toinrVars, scrVars, srchVars, uiVars, callVars, gemVars, gridVars>>
  \/ Launched /\ UNCHANGED <<slugVars, cleanVars, rateVars, toinrVars, scrVars, srchVars, uiVars, callVars, gemVars, gridVars>>
  \/ Stepped /\ UNCHANGED <<slugVars, cleanVars, rateVars, toinrVars, scrVars, srchVars, uiVars, callVars, gemVars, gridVars>>
  \/ BrowserCloses /\ UNCHANGED <<slugVars, cleanVars, rateVars, toinrVars, scrVars, srchVars, uiVars, callVars, gemVars, gridVars>>

BrowserOnly ==
  /\ BrowserInit /\ RatesInit
  /\ SlugIdle /\ CleanIdle /\ ToINRIdle /\ ScrapeIdle /\ SearchIdle
  /\ UiIdle
  /\ RateIdle
  /\ GeminiIdle
  /\ GridIdle

BrowserSpec == BrowserOnly /\ [][BrowserNext]_vars

\* runs of startComparison, one after the other
UiNext ==
  \/ Compare /\ UNCHANGED <<slugVars, cleanVars, rateVars, toinrVars, scrVars, srchVars, brVars, callVars, gemVars, gridVars>>
  \/ Scraped /\ UNCHANGED <<slugVars, cleanVars, rateVars, toinrVars, scrVars, srchVars, brVars, callVars, gemVars, gridVars>>
  \/ Searched /\ UNCHANGED <<slugVars, cleanVars, rateVars, toinrVars, scrVars, srchVars, brVars, callVars, gemVars>>

UiOnly ==
  /\ UiInit /\ RatesInit
  /\ SlugIdle /\ CleanIdle /\ ToINRIdle /\ ScrapeIdle /\ SearchIdle /\ BrowserIdle
  /\ RateIdle
  /\ GeminiIdle
  /\ GridIdle

UiSpec == UiOnly /\ [][UiNext]_vars

\* key presses and activations of the button at any moment of a run
LoadNext ==
  \/ Pressed /\ UNCHANGED <<slugVars, cleanVars, rateVars, toinrVars, scrVars, srchVars, brVars, callVars, gemVars, gridVars>>
  \/ Activated /\ UNCHANGED <<slugVars, cleanVars, rateVars, toinrVars, scrVars, srchVars, brVars, callVars, gemVars, gridVars>>
  \/ Scraped /\ UNCHANGED <<slugVars, cleanVars, rateVars, toinrVars, scrVars, srchVars, brVars, callVars, gemVars, gridVars>>
  \/ Searched /\ UNCHANGED <<slugVars, cleanVars, rateVars, toinrVars, scrVars, srchVars, brVars, callVars, gemVars>>

LoadOnly ==
  /\ UiInit /\ RatesInit
  /\ SlugIdle /\ CleanIdle /\ ToINRIdle /\ ScrapeIdle /\ SearchIdle /\ BrowserIdle
  /\ RateIdle
  /\ GeminiIdle
  /\ GridIdle

LoadSpec == LoadOnly /\ [][LoadNext]_vars

\* concurrent calls of getINRRate
RateNext ==
  \/ RateCalled /\ UNCHANGED <<slugVars, cleanVars, toinrVars, scrVars, srchVars, brVars, uiVars, gemVars, gridVars>>
  \/ RateSettled /\ UNCHANGED <<slugVars, cleanVars, toinrVars, scrVars, srchVars, brVars, uiVars, gemVars, gridVars>>
  \/ Tick /\ UNCHANGED <<slugVars, cleanVars, toinrVars, scrVars, srchVars, brVars, uiVars, gemVars, gridVars>>

RateOnly ==
  /\ RateInit /\ RatesAmong(RateSnapshots)
  /\ SlugIdle /\ CleanIdle /\ ToINRIdle /\ ScrapeIdle /\ SearchIdle /\ BrowserIdle
  /\ UiIdle
  /\ GeminiIdle
  /\ GridIdle

RateSpec == RateOnly /\ [][RateNext]_vars

\* one call of extractWithGemini
GeminiNext ==
  \/ extractWithGemini /\ UNCHANGED <<slugVars, cleanVars, rateVars, toinrVars, scrVars, srchVars, brVars, uiVars, callVars, gridVars>>
  \/ ModelReturned /\ UNCHANGED <<slugVars, cleanVars, rateVars, toinrVars, scrVars, srchVars, brVars, uiVars, callVars, gridVars>>
  \/ ModelThrew /\ UNCHANGED <<slugVars, cleanVars, rateVars, toinrVars, scrVars, srchVars, brVars, uiVars, callVars, gridVars>>

GeminiOnly ==
  /\ GeminiInit /\ RatesInit
  /\ SlugIdle /\ CleanIdle /\ ToINRIdle /\ ScrapeIdle /\ SearchIdle /\ BrowserIdle
  /\ UiIdle /\ RateIdle
  /\ GridIdle

GeminiSpec == GeminiOnly /\ [][GeminiNext]_vars

\* renderComparison called on one list of entries
RenderNext ==
  RenderCall /\ UNCHANGED <<slugVars, cleanVars, rateVars, toinrVars, scrVars, srchVars, brVars, uiVars, callVars, gemVars>>

RenderOnly ==
  /\ RenderInit /\ RatesInit
  /\ SlugIdle /\ CleanIdle /\ ToINRIdle /\ ScrapeIdle /\ SearchIdle /\ BrowserIdle
  /\ UiIdle /\ RateIdle /\ GeminiIdle

RenderSpec == RenderOnly /\ [][RenderNext]_vars

\* ========================================================================
\* Claims
\* ========================================================================
\* C6: for the URL https://example.com/dp/amazing-wireless-headphones-B08XYZ123/
\* the name extractProductNameFromUrl derives is exactly
\* "Amazing Wireless Headphones".
C6_ExampleSlugName ==
  (slugDone /\ slugUrl = ExampleUrl) => slugName = AmazingWirelessHeadphones

\* the text of html, once markup is gone and &amp; is decoded, holds no
\* &lt; and no &gt;
NoAngleEntities(html) ==
  /\ ~includes(DecodeAmp(html), EntLt)
  /\ ~includes(DecodeAmp(html), EntGt)

NoAngles(s) == "<" \notin Range(s) /\ ">" \notin Range(s)

\* C10 as stated: for every well-formed input the output of cleanHTML has
\* at most 8000 characters and contains neither '<' nor '>'.
C10_CleanNoAnglesWellFormed ==
  (cleanDone /\ WellFormed(htmlIn)) =>
     (Len(cleanOut) <= CleanCap /\ NoAngles(cleanOut))

\* C10 amended: the output of cleanHTML never has more than 8000
\* characters, and for a well-formed input whose text holds no &lt; and no
\* &gt; entity it contains neither '<' nor '>'.
C10_CleanCapAndNoAngles ==
  cleanDone =>
     /\ Len(cleanOut) <= CleanCap
     /\ (WellFormed(htmlIn) /\ NoAngleEntities(htmlIn)) => NoAngles(cleanOut)

\* a well-formed document with tags, longer than the budget, was cut to it
C10_Witness ==
  /\ cleanDone
  /\ WellFormed(htmlIn) /\ NoAngleEntities(htmlIn)
  /\ includes(htmlIn, <<"<">>)
  /\ Len(htmlIn) > CleanCap
  /\ Len(cleanOut) = CleanCap

Abs(i) == IF i < 0 THEN -i ELSE i

\* the call under test returned for a finite non-zero amount, and the
\* snapshot it read holds a rate for the upper-cased code
ConvertedWithStoredRate ==
  /\ toinrPc = "done"
  /\ toinrAmount[1] = "num" /\ toinrAmount[2] # 0
  /\ ~NoRate(exchangeRates, toUpperCase(toinrCurrency))

\* the rate the call read, as <<digits, decimals>>
StoredRate == exchangeRates[toUpperCase(toinrCurrency)]

\* amount / r as a fraction of integers
QuotientNumerator == toinrAmount[2] * Pow(10, StoredRate[2])
QuotientDenominator == StoredRate[1] * Pow(10, toinrAmount[3])

\* round(amount / r), halves going up
RoundedQuotient ==
  (2 * QuotientNumerator + QuotientDenominator) \div (2 * QuotientDenominator)

C9_NullOnlyForNonFinite ==
  toinrPc = "done" =>
     IF toinrAmount[1] = "num"
     THEN toinrResult[1] = "num" /\ toinrResult[3] = 0
     ELSE toinrResult = NullNum /\ toinrLookups = 0 /\ toinrRefresh = "none"

\* the request was answered with a BLOCKED / a DONE payload
Blocked == scrResponse.status = 200 /\ scrResponse.blocked
Done == scrResponse.status = 200 /\ ~scrResponse.blocked

\* C1: every response of POST /scrape that has blocked=true has price=null
\* and description=[], whether blockedResponse or the outer catch built it.
C1_BlockedHasNoPrice ==
  Blocked => scrResponse.price = NullNum /\ scrResponse.description = <<>>

\* the outer catch answered with a blocked payload
C1_Witness ==
  /\ scrPc = "done" /\ scrError /\ Blocked
  /\ scrResponse.blockerMessage = BlockedCatchMessage(scrWebsite)

\* a name that is absent, contains "unknown" in any letter case, or has
\* fewer than 3 characters
InvalidName(name) ==
  \/ name = Null
  \/ name # NotAString
       /\ \/ \E i \in DOMAIN name :
               /\ i + 6 <= Len(name)
               /\ toLowerCase(SubSeq(name, i, i + 6)) = <<"u","n","k","n","o","w","n">>
          \/ Len(name) < 3

\* the reduction came out shorter than 200 characters
ShortReduction ==
  scrCalls["clean"] > 0 /\ ~scrError /\ Len(scrCleaned) < MinTextLength

\* every model failed
ExtractionFailed ==
  scrCalls["model"] = Len(GEMINI_MODELS) /\ scrCalls["validate"] = 0

\* the request ended on a failure the pipeline absorbs
RecoverableFailure ==
  /\ scrPc = "done" /\ ~Falsy(scrUrl)
  /\ \/ scrFetchFailed
     \/ ShortReduction
     \/ ExtractionFailed
     \/ scrCalls["validate"] > 0 /\ InvalidName(scrExtracted.name)

\* an answered request got one response, and it is the response claimed
AnsweredAsClaimed ==
  /\ scrResponses <= 1
  /\ scrPc = "done" =>
       /\ scrResponses = 1
       /\ IF Falsy(scrUrl) THEN scrResponse.status = 400
          ELSE scrResponse.status = 200 /\ scrResponse.blocked \in BOOLEAN
  /\ RecoverableFailure => Blocked

\* the same, with the 500 of the outer catch
AnsweredOrInternalError ==
  /\ scrResponses <= 1
  /\ scrPc = "done" =>
       /\ scrResponses = 1
       /\ IF Falsy(scrUrl) THEN scrResponse.status = 400
          ELSE \/ scrResponse.status = 200 /\ scrResponse.blocked \in BOOLEAN
               \/ /\ scrResponse.status = 500
                  /\ scrError
                  /\ extractProductNameFromUrl(scrUrl) = Null
  /\ RecoverableFailure => Blocked

InFlight == scrPc \in {"rendering", "fetching", "extracting", "converting"}

\* C2 as stated: whatever the outcomes of the rendered fetch, the static
\* fetch, the models and the refresh of the rates, a request eventually gets
\* exactly one response: 400 when url is missing, otherwise a DONE or a
\* BLOCKED payload; a fetch failure, a too-short reduction, an extraction
\* failure or an invalid name never gets an HTTP error status.
C2_AlwaysDoneOrBlocked ==
  /\ [](AnsweredAsClaimed)
  /\ InFlight ~> (scrPc = "done" /\ scrResponses = 1)

\* C2 amended: a request eventually gets exactly one response: 400 when url
\* is missing, otherwise a DONE payload, a BLOCKED payload, or a 500 when an
\* unexpected error reached the outer catch and the URL yields no name; a
\* fetch failure, a too-short reduction, an extraction failure or an invalid
\* name never gets an HTTP error status.
C2_OneResponse ==
  /\ [](AnsweredOrInternalError)
  /\ InFlight ~> (scrPc = "done" /\ scrResponses = 1)

\* a JSON body made cleanHTML throw for a URL without a slug: one response,
\* the 500
C2_Witness ==
  /\ scrPc = "done" /\ scrResponses = 1
  /\ scrHtml = NotAString /\ scrUrl = HomeUrl
  /\ scrResponse = InternalError

\* the html of step 1 is unusable: both attempts failed, or it is empty or
\* shorter than 500 characters
HtmlUnusable ==
  \/ scrFetchFailed
  \/ scrHtml = Null \/ scrHtml = <<>>
  \/ scrHtml # NotAString /\ Len(scrHtml) < MinHtmlLength

\* C3: if both fetch attempts fail, or the HTML obtained is empty or shorter
\* than 500 characters, the response has blocked=true and price=null, and
\* neither cleanHTML nor a model was run.
C3_UnusableHtmlBlocks ==
  (scrPc = "done" /\ ~Falsy(scrUrl) /\ HtmlUnusable) =>
     /\ Blocked /\ scrResponse.price = NullNum
     /\ scrCalls["clean"] = 0 /\ scrCalls["model"] = 0

\* locally both fetches were tried and failed, and the answer is blocked
C3_Witness ==
  /\ scrPc = "done" /\ ~IS_CLOUD
  /\ scrCalls["render"] = 1 /\ scrCalls["static"] = 1 /\ scrFetchFailed
  /\ Blocked

\* C4: if the text cleanHTML produced is shorter than 200 characters, the
\* response has blocked=true and a non-null blockerMessage, and no model was
\* asked.
C4_ShortTextBlocks ==
  ShortReduction =>
     /\ scrPc = "done" /\ Blocked
     /\ scrResponse.blockerMessage # Null
     /\ scrCalls["model"] = 0

\* a page of 500 characters or more was reduced to 199
C4_Witness ==
  /\ scrPc = "done" /\ Blocked
  /\ Len(scrHtml) >= MinHtmlLength
  /\ scrCalls["clean"] = 1 /\ Len(scrCleaned) = MinTextLength - 1

\* C5: whenever the extraction's name is absent, contains "unknown" in any
\* letter case or is shorter than 3 characters, the response has
\* blocked=true; no response with blocked=false carries such a name.
C5_InvalidNameBlocks ==
  /\ (scrCalls["validate"] > 0 /\ InvalidName(scrExtracted.name)) =>
        scrPc = "done" /\ Blocked
  /\ (scrPc = "done" /\ Done) => ~InvalidName(scrResponse.name)

\* the model answered "Unknown Product" and the response is blocked
C5_Witness ==
  /\ scrPc = "done" /\ Blocked
  /\ scrCalls["validate"] = 1 /\ scrExtracted.name = UnknownProduct

\* the extraction is valid (a name that passes the check and a description
\* that is a list), its currency is "INR" and its priceText parses to a
\* positive integer
ValidRupeeExtraction ==
  /\ scrCalls["validate"] > 0
  /\ scrExtracted.name # NotAString /\ ~InvalidName(scrExtracted.name)
  /\ Len(trim(scrExtracted.name)) >= MinNameLength
  /\ scrExtracted.description # NotAString
  /\ scrExtracted.currency = INR
  /\ scrExtracted.priceText \in {RupeePrice, RupeePriceWithPaise}

PriceOf(priceText) ==
  IF priceText = RupeePrice THEN Num(1999, 0) ELSE Num(24999, 0)

\* C7: for a valid extraction whose currency is "INR" and whose priceText
\* parses to a positive integer n, the response has blocked=false and
\* price=n, in every state of the cache and however a refresh during the
\* call ends.
C7_RupeePriceKept ==
  (scrPc = "done" /\ ValidRupeeExtraction) =>
     /\ Done
     /\ scrResponse.price = PriceOf(scrExtracted.priceText)

\* the cache was stale, the refresh failed, and the price is 1999
C7_Witness ==
  /\ scrPc = "done" /\ ValidRupeeExtraction
  /\ toinrRefresh = "failed" /\ exchangeRates = FallbackRates
  /\ ratesFetchedAt = NowMinute - RateTtlMinutes - 1
  /\ Done /\ scrResponse.price = Num(1999, 0)

\* C11 as stated: for every input whose reduced text is under the
\* 8000-character cap, cleanHTML(cleanHTML(x)) = cleanHTML(x).
C11_CleanIdempotent ==
  (cleanTwice # Null /\ Len(cleanOut) < CleanCap) => cleanTwice = cleanOut

\* C11 amended: for every input whose reduced text is under the
\* 8000-character cap and contains neither '<' nor '&',
\* cleanHTML(cleanHTML(x)) = cleanHTML(x).
C11_CleanIdempotentOnPlainText ==
  (/\ cleanTwice # Null
   /\ Len(cleanOut) < CleanCap
   /\ "<" \notin Range(cleanOut)
   /\ "&" \notin Range(cleanOut)) => cleanTwice = cleanOut

\* a document with markup and runs of whitespace was reduced to plain text
\* with whitespace in it, and reducing that again changed nothing
C11_Witness ==
  /\ cleanTwice # Null /\ cleanTwice = cleanOut
  /\ cleanOut # htmlIn
  /\ Len(cleanOut) < CleanCap
  /\ "<" \notin Range(cleanOut) /\ "&" \notin Range(cleanOut)
  /\ \E i \in DOMAIN cleanOut : cleanOut[i] \in SpaceSet

\* the handler of /search has come to its end
SearchEnded == srchPc \in {"done", "rejected"}

\* the static answer: fallback:true and one entry per retailer, each without
\* a price
StaticAnswer ==
  /\ srchResponse.status = 200
  /\ "fallback" \in DOMAIN srchResponse /\ srchResponse.fallback = TRUE
  /\ Len(srchResponse.products) = Len(retailers)
  /\ \A i \in DOMAIN retailers :
       /\ srchResponse.products[i].websiteName = retailers[i].name
       /\ srchResponse.products[i].price = NullNum

\* C12: a POST /search with a productName never fails: without a configured
\* key, or when the primary path throws, the response is a success with
\* fallback:true and one entry per retailer, each with price=null; and
\* fallback:true appears only when the static path was taken.
C12_SearchNeverFails ==
  (SearchEnded /\ ~Falsy(srchName)) =>
     /\ srchResponses = 1 /\ srchResponse.status = 200
     /\ srchStatic => StaticAnswer
     /\ "fallback" \in DOMAIN srchResponse => srchStatic

\* C13: whenever a call of fetchRenderedHTML that launched a browser has
\* settled (by return, by an error of a page step, by the navigation
\* timeout), its browser is closed; and between calls no launched browser
\* is open, however many fetches came before.
C13_BrowserClosedOnExit ==
  brPc = "settled" =>
     /\ brBrowser # "open"
     /\ brOpen = 0

\* a call whose navigation failed has settled with its browser closed
C13_Witness ==
  /\ brPc = "settled" /\ brOutcome = "goto" /\ brBrowser = "closed"
  /\ brCalls = MaxFetches

\* steps of a /scrape request, as the counters of scrCalls show them
RenderLaunched == scrCalls'["render"] > scrCalls["render"]
StaticAttempted == scrCalls'["static"] > scrCalls["static"]
RequestAccepted == scrPc = "idle" /\ ~Falsy(scrUrl')
RenderFailed == scrPc = "rendering" /\ scrHtml' = Null
RenderGaveNothing == scrPc = "rendering" /\ Falsy(scrHtml')

\* hosted: the rendered fetch is never launched, the static fetch serves the
\* request; local: the rendered fetch goes first, alone
FetchSelection ==
  /\ ~RenderLaunched \/ (~IS_CLOUD /\ RequestAccepted)
  /\ RequestAccepted => IF IS_CLOUD THEN StaticAttempted /\ ~RenderLaunched
                                    ELSE RenderLaunched /\ ~StaticAttempted

ScrapeBlocked == Ok(uiScrape) /\ uiScrape.blocked

\* the blocked banner and the comparison are visible; error, source and
\* loading are hidden
BlockedView == uiHidden = {"error", "source", "loading"}

\* C15: for any scraping failure, startComparison ends with the blocked
\* banner and the comparison section visible and with the error, source and
\* loading sections hidden; the error section is never shown for a scraping
\* failure.
C15_BlockedViewAfterFailure ==
  ScrapeBlocked =>
     /\ uiPc = "ended" => BlockedView
     /\ "error" \in uiHidden

\* C15, amended: for a scraping failure whose search is answered,
\* startComparison ends with this view; when the search fails it ends with
\* the error section alone; until then the error section is hidden.
C15_BlockedViewWhenSearchAnswers ==
  ScrapeBlocked =>
     /\ (uiPc = "ended" /\ Ok(uiSearch)) => BlockedView /\ uiBanner # Null
     /\ (uiPc = "ended" /\ ~Ok(uiSearch)) => uiHidden = Sections \ {"error"}
     /\ uiPc # "ended" => "error" \in uiHidden

\* a blocked page, a search that was answered with the static list, and
\* the run at its end
C15_Witness ==
  /\ ScrapeBlocked /\ uiPc = "ended" /\ BlockedView
  /\ Ok(uiSearch) /\ "fallback" \in DOMAIN uiSearch

\* call c of getINRRate begins in this step
Begun(c) == rateCalls[c].pc # "refreshing" /\ rateCalls'[c] # rateCalls[c]

\* the refresh of call c fails in this step
RefreshFailed(c) ==
  /\ rateCalls[c].pc = "refreshing" /\ rateCalls'[c].pc = "returned"
  /\ lastRefresh' = "failed"

\* a failed refresh leaves the fallback table, and the fetch time as it was
FailureKeepsAge(c) ==
  RefreshFailed(c) =>
     /\ exchangeRates' = FallbackRates
     /\ ratesFetchedAt' = ratesFetchedAt

\* C16: after a refresh attempt fails the snapshot is the fallback table and
\* the fetch time is as before, so a call that begins next, for any code,
\* attempts a refresh again, whatever the age of the snapshot was.
C16_NextCallRefreshesAgain ==
  [][ \A c \in 1..MaxCalls :
        /\ FailureKeepsAge(c)
        /\ (Begun(c) /\ lastRefresh = "failed") =>
              rateCalls'[c].pc = "refreshing" ]_vars

\* C16, amended: after a refresh attempt fails the snapshot is the fallback
\* table and the fetch time is as before; a call that begins next attempts
\* a refresh exactly when that fetch time is more than 30 minutes old or its
\* code is not in the fallback table.
C16_NextCallRefreshesWhenStale ==
  [][ \A c \in 1..MaxCalls :
        /\ FailureKeepsAge(c)
        /\ (Begun(c) /\ lastRefresh = "failed") =>
              /\ exchangeRates = FallbackRates
              /\ rateCalls'[c].pc = "refreshing"
                   <=> \/ clock - ratesFetchedAt > RateTtlMinutes
                       \/ rateCalls'[c].code \notin DOMAIN FallbackRates ]_vars

\* a call that began after a failed refresh and took its rate from the
\* fallback table without a refresh of its own
C16_Witness ==
  \E c \in 1..MaxCalls :
     /\ rateCalls[c].pc = "returned" /\ rateCalls[c].after = "failed"
     /\ ~rateCalls[c].refreshed /\ rateCalls[c].source = "fallback"

\* C17: getINRRate('INR') returns 1 in every state of the snapshot without
\* attempting a refresh, and leaves exchangeRates and ratesFetchedAt
\* unchanged.
C17_INRNeverRefreshes ==
  \A c \in 1..MaxCalls :
     rateCalls[c].code = INR =>
        /\ ~rateCalls[c].refreshed
        /\ rateCalls[c].pc = "returned" => ReturnedRate(rateCalls[c]) = DblFromInt(1)

\* C17, amended: getINRRate('INR') returns 1 in every state of the snapshot;
\* it attempts a refresh exactly when the snapshot is more than 30 minutes
\* old or holds no INR entry, and leaves the cache unchanged otherwise.
C17_INRReturnsOne ==
  [][ \A c \in 1..MaxCalls :
        rateCalls'[c].code = INR =>
           /\ rateCalls'[c].pc = "returned" =>
                 ReturnedRate(rateCalls'[c]) = DblFromInt(1)
           /\ Begun(c) =>
                 /\ UNCHANGED <<exchangeRates, ratesFetchedAt>>
                 /\ rateCalls'[c].refreshed
                      <=> \/ clock - ratesFetchedAt > RateTtlMinutes
                          \/ INR \notin DOMAIN exchangeRates ]_vars

\* a call for INR has returned after a refresh of its own, which failed and
\* left the fallback table
C17_Witness ==
  \E c \in 1..MaxCalls :
     /\ rateCalls[c].code = INR /\ rateCalls[c].pc = "returned"
     /\ rateCalls[c].refreshed /\ lastRefresh = "failed"
     /\ exchangeRates = FallbackRates

\* C18: under any interleaving of calls and any outcomes of the refreshes, a
\* call that takes its rate from rates the service sent finds them fetched
\* at most 30 minutes before its start; any other rate is an entry of the
\* fallback table or the default (or the 1 of INR).
C18_LiveRatesAreFresh ==
  \A c \in 1..MaxCalls :
     LET call == rateCalls[c]
         upper == toUpperCase(call.code)
     IN call.pc = "returned" =>
          IF call.source = "live"
          THEN call.now - call.fetchedAt \in 0..RateTtlMinutes
          ELSE \/ upper = INR
               \/ call.entry = <<0, 0>>
               \/ upper \in DOMAIN FallbackRates /\ call.entry = FallbackRates[upper]

\* one call returned a rate from live rates that were exactly 30 minutes
\* old, while another call awaits its refresh
C18_Witness ==
  \E c, d \in 1..MaxCalls :
     /\ rateCalls[c].pc = "returned" /\ rateCalls[c].source = "live"
     /\ rateCalls[c].now - rateCalls[c].fetchedAt = RateTtlMinutes
     /\ rateCalls[d].pc = "refreshing"

\* C19: the models are called in the order of GEMINI_MODELS, each only after
\* every earlier one has failed; the call returns the parsed answer of the
\* first model that succeeds and calls none after it; when all have failed
\* it throws one error that carries the message of the last model's error.
C19_ModelsInOrder ==
  /\ gemCalled = SubSeq(GEMINI_MODELS, 1, Len(gemCalled))
  /\ gemPc \in {"calling", "returned"} => Len(gemErrors) = Len(gemCalled) - 1
  /\ gemPc = "returned" => gemResult \in ModelResults /\ gemThrown = Null
  /\ gemPc = "threw" =>
        /\ gemCalled = GEMINI_MODELS
        /\ Len(gemErrors) = Len(GEMINI_MODELS)
        /\ gemThrown = AllModelsFailed(gemErrors[Len(gemErrors)])
        /\ gemResult = NoExtraction

\* every model failed, the last one with an error other than the first
C19_Witness ==
  /\ gemPc = "threw"
  /\ gemErrors[1] # gemErrors[Len(gemErrors)]

\* each stage ran at most once, and only after the stage before it had
\* completed with success
StagesInOrder ==
  /\ scrCalls["render"] <= 1 /\ scrCalls["static"] <= 1
  /\ scrCalls["clean"] <= 1 /\ scrCalls["model"] <= Len(GEMINI_MODELS)
  /\ scrCalls["validate"] <= 1 /\ scrCalls["convert"] <= 1
  /\ scrCalls["clean"] > 0 =>
        /\ scrCalls["render"] + scrCalls["static"] > 0
        /\ scrPc \notin {"rendering", "fetching"}
        /\ ~scrFetchFailed /\ ~Falsy(scrHtml)
        /\ scrHtml # NotAString => Len(scrHtml) >= MinHtmlLength
  /\ scrCalls["model"] > 0 =>
        /\ scrCalls["clean"] = 1 /\ scrHtml # NotAString
        /\ Len(scrCleaned) >= MinTextLength
  /\ scrCalls["validate"] > 0 =>
        /\ scrCalls["model"] > 0 /\ scrPc # "extracting"
        /\ scrExtracted # NoExtraction
  /\ scrCalls["convert"] > 0 =>
        /\ scrCalls["validate"] = 1
        /\ scrExtracted.name # NotAString /\ ~InvalidName(scrExtracted.name)

\* the request ended in the outer catch on an error raised after toINR had
\* been called
FailedAtConvert == scrError /\ scrCalls["convert"] > 0

\* C20: the stages of a /scrape request run in the order fetch, reduce,
\* extract, validate, convert, each at most once and only after the stage
\* before it succeeded; once the request is BLOCKED no stage runs any more,
\* and a request that ended BLOCKED at fetch, reduce, extract or validate has
\* not called toINR and has left exchangeRates and ratesFetchedAt as they
\* were.
C20_StagesInOrder ==
  [][ /\ StagesInOrder'
      /\ Blocked => UNCHANGED <<scrCalls, toinrLookups>>
      /\ (Blocked' /\ ~FailedAtConvert') =>
            scrCalls'["convert"] = 0 /\ toinrLookups' = 0
      /\ scrCalls'["convert"] = 0 => UNCHANGED <<exchangeRates, ratesFetchedAt>> ]_vars

\* a request whose extracted name was rejected ended BLOCKED, and the empty
\* snapshot, which toINR would have refreshed, is still empty
C20_Witness ==
  /\ scrPc = "done" /\ Blocked /\ ~scrError
  /\ scrCalls["validate"] = 1 /\ scrCalls["convert"] = 0
  /\ scrExtracted.priceText = RupeePrice
  /\ exchangeRates = NoRates

\* the extraction passed the check of its name, and the handler went on to
\* step 4
ValidationPassed ==
  /\ scrCalls["validate"] > 0
  /\ scrExtracted.name # NotAString /\ ~isUnknown(scrExtracted.name)

\* priceText is absent, or a string in which parseFloat finds no number
PriceUnreadable ==
  /\ scrExtracted.priceText # NotAString
  /\ scrNumericPrice = NullNum
  /\ scrExtracted.priceText # Null =>
        \A i \in DOMAIN scrExtracted.priceText :
           scrExtracted.priceText[i] \notin DigitSet

\* a field of the extraction has a type on which step 4 throws: a priceText
\* that is not a string, a description that is not a list, or a currency
\* that is not a string next to a price that parsed to a number other than 0
WrongType ==
  \/ scrExtracted.priceText = NotAString
  \/ scrExtracted.description = NotAString
  \/ scrExtracted.currency = NotAString /\ ~NoAmount(scrNumericPrice)

\* the response echoes the extracted price text next to a null price
NullPriceEchoed ==
  /\ Done
  /\ scrResponse.price = NullNum
  /\ scrResponse.priceText = scrExtracted.priceText

CaughtName == extractProductNameFromUrl(scrUrl)

\* C22: an unexpected error raised anywhere in the /scrape pipeline is
\* caught once at the outer boundary: when extractProductNameFromUrl yields a
\* name the response is a BLOCKED payload with that name, price=null and
\* description=[]; only when it yields none is the response a 500 with an
\* error message; in both cases exactly one response is sent.
C22_CaughtOnceAtBoundary ==
  /\ scrError =>
        /\ scrPc = "done" /\ scrResponses = 1
        /\ IF ~Falsy(CaughtName)
           THEN /\ Blocked
                /\ scrResponse.name = CaughtName
                /\ scrResponse.price = NullNum
                /\ scrResponse.description = <<>>
           ELSE /\ scrResponse.status = 500
                /\ scrResponse.error # ""
  /\ scrResponse.status = 500 => scrError /\ Falsy(CaughtName)

\* toINR had refreshed the rates and then rejected on a currency that is a
\* number; the URL has no slug, and the answer is the 500
C22_Witness ==
  /\ scrError /\ scrPc = "done" /\ scrResponses = 1
  /\ scrCalls["convert"] = 1 /\ toinrRefresh = "ok"
  /\ scrExtracted.currency = NotAString
  /\ scrUrl = HomeUrl /\ scrResponse = InternalError

\* the request was answered on the primary path, with { products }
PrimaryAnswered ==
  /\ srchPc = "done" /\ srchResponse.status = 200
  /\ KeyConfigured(SERPAPI_KEY) /\ ~srchStatic

\* the price of the entry of a result whose conversion read the given table
PriceFrom(item, rates) ==
  IF NoAmount(parseNumericPrice(item.price)) THEN NullNum
  ELSE RoundedProduct(parseNumericPrice(item.price),
                      RateToINR(rates, detectCurrency(item.price)))

\* two conversions of the request that returned without a refresh
BothUnrefreshed(i, j) ==
  /\ srchConv[i].pc = "done" /\ ~srchConv[i].refreshed /\ ~NoAmount(srchConv[i].amount)
  /\ srchConv[j].pc = "done" /\ ~srchConv[j].refreshed /\ ~NoAmount(srchConv[j].amount)

\* C23: on the primary /search path the response is sent only after the
\* conversions of all of the at most 3 results have completed, and lists
\* their entries in the order of the results; the price of an entry depends
\* on its own result and on how its own refresh ended only (a conversion
\* that refreshed read the table its own refresh stored, those that did not
\* all read the one table the request found), so it is the same under every
\* interleaving of the conversions.
C23_JoinedAndOrderInsensitive ==
  /\ PrimaryAnswered =>
        /\ \A i \in DOMAIN srchConv : srchConv[i].pc = "done"
        /\ Len(srchItems) <= MaxProducts
        /\ Len(srchResponse.products) = Len(srchItems)
        /\ \A i \in DOMAIN srchItems :
             /\ srchResponse.products[i].originalPrice = srchItems[i].price
             /\ srchResponse.products[i].price = srchConv[i].result
  /\ \A i \in DOMAIN srchConv :
        srchConv[i].pc = "done" =>
           /\ srchConv[i].refreshed => srchConv[i].read = RatesAfter(srchConv[i].res)
           /\ srchConv[i].result = PriceFrom(srchItems[i], srchConv[i].read)
  /\ \A i, j \in DOMAIN srchConv :
        BothUnrefreshed(i, j) => srchConv[i].read = srchConv[j].read

\* three results; the refresh of the first failed and settled after the
\* refresh of the second, which brought live rates, and the first entry is
\* priced with the table of the catch: 25.50 USD at 0.012 is 2125
C23_Witness ==
  /\ PrimaryAnswered /\ Len(srchResponse.products) = MaxProducts
  /\ srchConv[1].refreshed /\ srchConv[2].refreshed
  /\ ~srchConv[1].res.ok /\ srchConv[2].res = [ok |-> TRUE, rates |-> LiveRates]
  /\ exchangeRates = FallbackRates
  /\ srchItems[1].price = DollarPrice
  /\ srchResponse.products[1].price = Num(2125, 0)

\* the explicit currency field of a result when it has one, else the
\* currency its price text suggests
ExplicitOrInferred(item) ==
  IF Falsy(item.currency) THEN detectCurrency(item.price) ELSE item.currency

\* C24: on the primary /search path the currency of each result is its
\* explicit currency field when it has one, and is inferred from the symbols
\* of its price text only when it has none; the price is converted with the
\* currency so chosen.
C24_ExplicitCurrencyFirst ==
  \A i \in DOMAIN srchConv :
     srchConv[i].pc # "threw" =>
        /\ srchConv[i].currency = ExplicitOrInferred(srchItems[i])
        /\ (srchConv[i].pc = "done" /\ ~NoAmount(srchConv[i].amount)) =>
              srchConv[i].result =
                RoundedProduct(srchConv[i].amount,
                               RateToINR(srchConv[i].read,
                                         ExplicitOrInferred(srchItems[i])))

\* the entries of the rendered list that carry a price
PricedEntries == {i \in DOMAIN gridProducts : Priced(gridProducts[i].price)}

\* entry i carries the minimum of the prices that are not null
HasMinimum(i) ==
  /\ i \in PricedEntries
  /\ \A j \in PricedEntries : gridProducts[i].price[2] <= gridProducts[j].price[2]

\* the card of entry i carries the class and the badge of the lowest / of
\* the highest price
MarkedLowest(i) ==
  \/ "price-lowest" \in comparisonGrid.cards[i].className
  \/ comparisonGrid.cards[i].badge = "Best Price"
MarkedHighest(i) ==
  \/ "price-highest" \in comparisonGrid.cards[i].className
  \/ comparisonGrid.cards[i].badge = "Highest"

\* C25: in renderComparison every entry whose price equals the minimum of
\* the non-null prices is marked lowest, all tied entries included; an entry
\* with a null or missing price is marked neither lowest nor highest; no
\* entry is marked both; and no entry is marked highest when all non-null
\* prices are equal.
C25_TiedLowestAllMarked ==
  gridRendered =>
     /\ Len(comparisonGrid.cards) = Len(gridProducts)
     /\ \A i \in DOMAIN gridProducts :
          /\ HasMinimum(i) => MarkedLowest(i)
          /\ i \notin PricedEntries => ~MarkedLowest(i) /\ ~MarkedHighest(i)
          /\ ~(MarkedLowest(i) /\ MarkedHighest(i))
          /\ (\A j, k \in PricedEntries :
                gridProducts[j].price = gridProducts[k].price) => ~MarkedHighest(i)

\* three entries, two of them tied at the lowest price and both marked, the
\* third marked highest
C25_Witness ==
  /\ gridRendered /\ Len(gridProducts) = 3
  /\ gridProducts[1].price = Num(1999, 0) /\ gridProducts[3].price = Num(1999, 0)
  /\ gridProducts[2].price = Num(2125, 0)
  /\ MarkedLowest(1) /\ MarkedLowest(3) /\ MarkedHighest(2)

\* a key was pressed or the button was activated in this step
EventStep == uiLast' # uiLast

\* the event of this step asks for a comparison of a valid url
AsksToCompare ==
  /\ EventStep
  /\ uiLast'.event = "click" \/ uiLast'.key = "Enter"
  /\ uiLast'.valid

\* a run of startComparison stands at one of its awaits
Running == uiPc \in {"scraping", "searching"}

\* C26: in the browser UI at most one comparison is in flight at any time:
\* an Enter key press or an activation of the button while isLoading is true
\* issues no /scrape and no /search call and leaves the run where it is;
\* whenever a started comparison finishes, through the normal flow, the
\* blocked flow or an error of either call, isLoading is false, the button
\* is enabled and no call is left in flight; and a request for a comparison
\* made when none is running starts one.
C26_OneComparisonInFlight ==
  [][ /\ Len(uiInFlight') <= 1
      /\ isLoading' <=> Len(uiInFlight') = 1
      /\ (EventStep /\ isLoading) =>
            /\ uiInFlight' = uiInFlight
            /\ uiPc' = uiPc
            /\ isLoading'
      /\ (Running /\ ~Running') =>
            /\ ~isLoading'
            /\ ~uiDisabled'
            /\ uiInFlight' = <<>>
      /\ (AsksToCompare /\ ~Running) =>
            /\ uiPc' = "scraping"
            /\ uiInFlight' = <<Fetch("/scrape", uiUrl')>>
            /\ isValidUrl(uiUrl')
    ]_vars

\* the button was activated with a valid url while a comparison was
\* running, and that comparison has since ended with its search answered
C26_Witness ==
  /\ uiLast.event = "click" /\ uiLast.loading
  /\ uiLast.valid
  /\ uiPc = "ended" /\ uiSearch # NoResponse
  /\ ~isLoading /\ ~uiDisabled /\ uiInFlight = <<>>

====
